---- MODULE Spec2Model ----
(***************************************************************************)
(* A model of the tiny C compiler: the value stack, the x86-64 encoder,    *)
(* the generic code generator, the parser's productions as the events that *)
(* drive code generation, and a decoder/executor for the emitted bytes.    *)
(*                                                                         *)
(* The compiler state (TCCState) is the set of variables below.  Each code *)
(* generation function is an operator from a state record to a state       *)
(* record, so that a production, which calls several of them in sequence,  *)
(* is their composition; an action commits the resulting record.           *)
(***************************************************************************)
EXTENDS Integers, Sequences, FiniteSets, TLC

VARIABLES
  vstack,       \* s->vstack[0 .. vtop]: the live value-stack entries
  text,         \* s->text_section->data[0 .. data_size-1]
  ind,          \* s->ind
  loc,          \* s->loc
  nb_errors,    \* s->nb_errors
  nb_warnings,  \* s->nb_warnings
  labels,       \* the Sym objects returned by gind: [r, c]
  ast,          \* history: the source expressions parsed so far, one per
                \* completed (sub)expression still awaiting its consumer
  ctl,          \* the parser's position: the stack of open statements
  sites,        \* history: per label, the jump slots emitted to it
  callsites,    \* history: the byte range and arity of each gfunc_call
  funcs,        \* the symbols declared so far, oldest first
  mark,         \* history: what the last step did
  drv,          \* main(): its position, the options read, what it called
  stacks,       \* the symbol stacks: hash buckets, scope spine, symbols
  sec,          \* one Section: data, data_size, data_alloc, and the last
                \* call made on it
  pe            \* the section sizes given to pe_output_file and its result

\* the variables of the driver, the symbol table, the section and the
\* image writer, which code generation leaves alone
aux == <<drv, stacks, sec, pe>>

vars == <<vstack, text, ind, loc, nb_errors, nb_warnings, labels, ast, ctl,
          sites, callsites, funcs, mark, drv, stacks, sec, pe>>

\* the variables of parsing and code generation but nb_errors
gen == <<vstack, text, ind, loc, nb_warnings, labels, ast, ctl, sites,
         callsites, funcs, mark>>

(***************************************************************************)
(* Program constants (tcc.h).                                              *)
(***************************************************************************)
VSTACK_SIZE == 256
NB_REGS == 6

VT_INT == 0
VT_BYTE == 1
VT_SHORT == 2
VT_PTR == 4
VT_FUNC == 6
VT_FLOAT == 8
VT_LLONG == 12
VT_BTYPE == 15
VT_UNSIGNED == 16

VT_CONST == 240
VT_LOCAL == 242
VT_LVAL == 256
VT_SYM == 512

REG_RAX == 0
REG_RCX == 1
REG_RDX == 2
REG_RSP == 4
REG_RBP == 5
REG_R8 == 8
REG_R9 == 9

RC_INT == 1
RC_RAX == 4
RC_RCX == 8
RC_RDX == 16

(***************************************************************************)
(* C integer operators on the mathematical integers.  BitAnd works on the  *)
(* two's-complement representation of any width: -1 is all ones.           *)
(***************************************************************************)
RECURSIVE BitAnd(_, _)
BitAnd(a, b) ==
  IF a = 0 \/ b = 0 THEN 0
  ELSE IF a = -1 THEN b
  ELSE IF b = -1 THEN a
  ELSE (a % 2) * (b % 2) + 2 * BitAnd(a \div 2, b \div 2)

BitOr(a, b) == a + b - BitAnd(a, b)

BitXor(a, b) == a + b - 2 * BitAnd(a, b)

BitNot(a) == (0 - a) - 1

RECURSIVE Pow2(_)
Pow2(n) == IF n = 0 THEN 1 ELSE 2 * Pow2(n - 1)

(***************************************************************************)
(* The compiler state as a record, and its commitment to the variables.    *)
(***************************************************************************)
S == [vstack |-> vstack, text |-> text, ind |-> ind, loc |-> loc,
      nb_errors |-> nb_errors, nb_warnings |-> nb_warnings,
      labels |-> labels]

CommitGen(n) ==
  /\ vstack' = n.vstack
  /\ text' = n.text
  /\ ind' = n.ind
  /\ loc' = n.loc
  /\ nb_errors' = n.nb_errors
  /\ nb_warnings' = n.nb_warnings
  /\ labels' = n.labels

Commit(n) == CommitGen(n) /\ UNCHANGED aux

\* s->vtop - s->vstack
vtop(s) == Len(s.vstack) - 1

tcc_error(s) == [s EXCEPT !.nb_errors = @ + 1]

tcc_warning(s) == [s EXCEPT !.nb_warnings = @ + 1]

\* tcc_new followed by gen_init: empty sections, empty value stack
tcc_new ==
  [vstack |-> <<>>, text |-> <<>>, ind |-> 0, loc |-> 0,
   nb_errors |-> 0, nb_warnings |-> 0, labels |-> <<>>]

(***************************************************************************)
(* x86-64 instruction encoding helpers.                                    *)
(***************************************************************************)
g(s, c) == [s EXCEPT !.text = Append(@, c % 256), !.ind = @ + 1]

gen_le32(s, v) ==
  g(g(g(g(s, v % 256), (v \div 256) % 256), (v \div 65536) % 256),
    (v \div 16777216) % 256)

gen_le64(s, v) == gen_le32(gen_le32(s, v), (v \div 65536) \div 65536)

gen_rex(s, w, r, x, b) ==
  LET rex == 64 + (IF w # 0 THEN 8 ELSE 0) + (IF r > 7 THEN 4 ELSE 0)
                + (IF x > 7 THEN 2 ELSE 0) + (IF b > 7 THEN 1 ELSE 0)
  IN IF rex # 64 THEN g(s, rex) ELSE s

gen_modrm(s, mod, reg, rm) == g(s, mod * 64 + (reg % 8) * 8 + (rm % 8))

\* the 8-bit form of the operand whatever the offset
gen_modrm_local_disp8(s, reg, offset) ==
  g(gen_modrm(s, 1, reg, REG_RBP), offset % 256)

gen_modrm_local(s, reg, offset) ==
  IF offset >= -128 /\ offset <= 127
  THEN g(gen_modrm(s, 1, reg, REG_RBP), offset % 256)
  ELSE gen_le32(gen_modrm(s, 2, reg, REG_RBP), offset)

\* the operand size load and store derive from the base type
TypeSize(t) ==
  LET bt == BitAnd(t, VT_BTYPE)
  IN IF bt = VT_BYTE THEN 1
     ELSE IF bt = VT_SHORT THEN 2
     ELSE IF bt = VT_INT THEN 4
     ELSE 8

IsUnsigned(t) == BitAnd(t, VT_UNSIGNED) # 0

(***************************************************************************)
(* load(r, sv): emit the code that brings sv into register r.              *)
(***************************************************************************)
load(s, r, sv) ==
  LET fr == sv.r
      size == TypeSize(sv.t)
  IN IF BitAnd(fr, 255) = VT_CONST THEN
       IF sv.c = 0 THEN
         gen_modrm(g(gen_rex(s, 1, r, 0, r), 49), 3, r, r)
       ELSE IF sv.c >= -2147483647 - 1 /\ sv.c <= 2147483647 THEN
         gen_le32(gen_modrm(g(gen_rex(s, 1, 0, 0, r), 199), 3, 0, r), sv.c)
       ELSE
         gen_le64(g(gen_rex(s, 1, 0, 0, r), 184 + (r % 8)), sv.c)
     ELSE IF BitAnd(fr, 255) = VT_LOCAL
             \/ BitAnd(fr, 255) = BitOr(VT_LOCAL, VT_LVAL) THEN
       IF BitAnd(fr, VT_LVAL) # 0 THEN
         LET op == IF size = 1 THEN
                     g(g(gen_rex(s, 0, r, 0, REG_RBP), 15),
                       IF IsUnsigned(sv.t) THEN 182 ELSE 190)
                   ELSE IF size = 2 THEN
                     g(g(gen_rex(s, 0, r, 0, REG_RBP), 15),
                       IF IsUnsigned(sv.t) THEN 183 ELSE 191)
                   ELSE IF size = 4 THEN
                     IF IsUnsigned(sv.t)
                     THEN g(gen_rex(s, 0, r, 0, REG_RBP), 139)
                     ELSE g(gen_rex(s, 1, r, 0, REG_RBP), 99)
                   ELSE g(gen_rex(s, 1, r, 0, REG_RBP), 139)
         IN gen_modrm_local(op, r, sv.c)
       ELSE
         gen_modrm_local(g(gen_rex(s, 1, r, 0, REG_RBP), 141), r, sv.c)
     ELSE IF BitAnd(fr, 255) < NB_REGS THEN
       LET fr_reg == BitAnd(fr, 255)
       IN IF fr_reg # r
          THEN gen_modrm(g(gen_rex(s, 1, r, 0, fr_reg), 137), 3, fr_reg, r)
          ELSE s
     ELSE s

(***************************************************************************)
(* store(r, sv): emit the code that writes register r to sv's cell.        *)
(***************************************************************************)
store(s, r, sv) ==
  LET fr == sv.r
      size == TypeSize(sv.t)
  IN IF BitAnd(fr, 255) = VT_LOCAL
        \/ BitAnd(fr, 255) = BitAnd(VT_LOCAL, 255) THEN
       LET op == IF size = 1 THEN g(gen_rex(s, 0, r, 0, REG_RBP), 136)
                 ELSE IF size = 2
                 THEN g(gen_rex(g(s, 102), 0, r, 0, REG_RBP), 137)
                 ELSE IF size = 4 THEN g(gen_rex(s, 0, r, 0, REG_RBP), 137)
                 ELSE g(gen_rex(s, 1, r, 0, REG_RBP), 137)
       IN gen_modrm_local(op, r, sv.c)
     ELSE s

(***************************************************************************)
(* Value stack operations.                                                 *)
(***************************************************************************)
SValue(t, r, c, sym) == [t |-> t, r |-> r, r2 |-> VT_CONST, c |-> c, sym |-> sym]

\* the top entry and the one below it
Top(s) == s.vstack[Len(s.vstack)]

Top1(s) == s.vstack[Len(s.vstack) - 1]

SetTop(s, sv) == [s EXCEPT !.vstack[Len(s.vstack)] = sv]

vsetc(s, t, r, c) ==
  IF vtop(s) + 1 >= VSTACK_SIZE THEN tcc_error(s)
  ELSE [s EXCEPT !.vstack = Append(@, SValue(t, r, c, "NULL"))]

vset(s, t, r, v) == vsetc(s, t, r, v)

vpop(s) ==
  IF vtop(s) < 0 THEN tcc_error(s)
  ELSE [s EXCEPT !.vstack = SubSeq(@, 1, Len(@) - 1)]

vswap(s) ==
  IF vtop(s) < 1 THEN tcc_error(s)
  ELSE LET n == Len(s.vstack)
       IN [s EXCEPT !.vstack = [@ EXCEPT ![n] = s.vstack[n - 1],
                                         ![n - 1] = s.vstack[n]]]


\* *(s->vtop - 1) once vtop has been incremented: the old top entry, or,
\* on an empty stack, vstack[-1], the bytes of TCCState that lie before the
\* array (below)
vpush_source(s, below) == IF vtop(s) >= 0 THEN Top(s) ELSE below

vpush(s, below) ==
  IF vtop(s) + 1 >= VSTACK_SIZE THEN tcc_error(s)
  ELSE [s EXCEPT !.vstack = Append(@, vpush_source(s, below))]

(***************************************************************************)
(* Value loading into registers.                                           *)
(***************************************************************************)
\* one iteration of save_reg's loop, for entry i (1-based), then the rest
RECURSIVE save_reg_from(_, _, _)
save_reg_from(s, r, i) ==
  IF i > Len(s.vstack) THEN s
  ELSE LET sv == s.vstack[i]
       IN IF BitAnd(sv.r, 255) = r THEN
            LET nloc == BitAnd(s.loc - 8, BitNot(7))
                spill_sv == [sv EXCEPT !.r = BitOr(VT_LOCAL, VT_LVAL),
                                       !.c = nloc]
                s1 == store([s EXCEPT !.loc = nloc], r, spill_sv)
            IN save_reg_from([s1 EXCEPT !.vstack[i] = spill_sv], r, i + 1)
          ELSE save_reg_from(s, r, i + 1)

save_reg(s, r) == save_reg_from(s, r, 1)

\* does the register r satisfy the class rc (gv's test)
gv_match(rc, r) ==
  IF BitAnd(rc, RC_RAX) # 0 /\ r # REG_RAX THEN FALSE
  ELSE IF BitAnd(rc, RC_RCX) # 0 /\ r # REG_RCX THEN FALSE
  ELSE IF BitAnd(rc, RC_RDX) # 0 /\ r # REG_RDX THEN FALSE
  ELSE TRUE

\* the register gv loads into when the top entry is not in a matching one
gv_pick(rc) ==
  IF BitAnd(rc, RC_RAX) # 0 THEN REG_RAX
  ELSE IF BitAnd(rc, RC_RCX) # 0 THEN REG_RCX
  ELSE IF BitAnd(rc, RC_RDX) # 0 THEN REG_RDX
  ELSE REG_RAX

\* vtop->r = r
SetTopR(s, r) == SetTop(s, [Top(s) EXCEPT !.r = r])

\* gv past the register test: load the top entry into r and record it
gv_load(s, r) == SetTopR(load(s, r, Top(s)), r)

\* gv: the state it leaves
gv(s, rc) ==
  IF vtop(s) < 0 THEN tcc_error(s)
  ELSE IF BitAnd(Top(s).r, 255) < NB_REGS
          /\ gv_match(rc, BitAnd(Top(s).r, 255)) THEN s
  ELSE gv_load(save_reg(s, gv_pick(rc)), gv_pick(rc))

\* gv: the register it returns
gv_ret(s, rc) ==
  IF vtop(s) < 0 THEN REG_RAX
  ELSE LET r0 == BitAnd(Top(s).r, 255)
       IN IF r0 < NB_REGS /\ gv_match(rc, r0) THEN r0 ELSE gv_pick(rc)

gv2(s, rc1, rc2) == vswap(gv(vswap(gv(s, RC_RCX)), RC_RAX))

(***************************************************************************)
(* Integer operations.  Each gen_opi case is its gv2/gv call followed by   *)
(* the instructions it emits on the state that call left.                  *)
(***************************************************************************)
\* the opcode of the two-operand form `op r, fr`
alu_opcode(op) ==
  IF op = "+" THEN 1
  ELSE IF op = "-" THEN 41
  ELSE IF op = "&" THEN 33
  ELSE IF op = "|" THEN 9
  ELSE 49

AluOps == {"+", "-", "&", "|", "^"}

gen_opi_alu_emit(s, opcode) ==
  LET r == BitAnd(Top1(s).r, 255)
      fr == BitAnd(Top(s).r, 255)
  IN vpop(gen_modrm(g(gen_rex(s, 1, r, 0, fr), opcode), 3, fr, r))

gen_opi_alu(s, opcode) == gen_opi_alu_emit(gv2(s, RC_INT, RC_INT), opcode)

gen_opi_mul_emit(s) ==
  LET fr == BitAnd(Top(s).r, 255)
  IN SetTopR(vpop(gen_modrm(g(g(gen_rex(s, 1, REG_RAX, 0, fr), 15), 175),
                            3, REG_RAX, fr)), REG_RAX)

gen_opi_mul(s) == gen_opi_mul_emit(gv2(s, RC_RAX, RC_INT))

\* the divisor moved out of RDX when gv2 left it there
gen_opi_div_fr(s) ==
  IF BitAnd(Top(s).r, 255) = REG_RDX
  THEN gen_modrm(g(gen_rex(s, 1, REG_RCX, 0, REG_RDX), 137),
                 3, REG_RDX, REG_RCX)
  ELSE s

gen_opi_div_emit(s, op) ==
  LET fr0 == BitAnd(Top(s).r, 255)
      fr == IF fr0 = REG_RDX THEN REG_RCX ELSE fr0
  IN SetTopR(vpop(gen_modrm(g(gen_rex(g(gen_rex(gen_opi_div_fr(s),
                                                1, 0, 0, 0), 153),
                                      1, 0, 0, fr), 247), 3, 7, fr)),
             IF op = "%" THEN REG_RDX ELSE REG_RAX)

gen_opi_div(s, op) == gen_opi_div_emit(gv2(s, RC_RAX, RC_INT), op)

gen_opi_shift_emit(s, op) ==
  LET r == BitAnd(Top1(s).r, 255)
      ext == IF op = "<<" THEN 4
             ELSE IF IsUnsigned(Top1(s).t) THEN 5 ELSE 7
  IN vpop(gen_modrm(g(gen_rex(s, 1, 0, 0, r), 211), 3, ext, r))

gen_opi_shift(s, op) == gen_opi_shift_emit(gv2(s, RC_INT, RC_RCX), op)

\* the setcc opcode of a comparison on operands of type t
setcc_op(op, t) ==
  IF op = "==" THEN 148
  ELSE IF op = "!=" THEN 149
  ELSE IF op = "<" THEN (IF IsUnsigned(t) THEN 146 ELSE 156)
  ELSE IF op = ">" THEN (IF IsUnsigned(t) THEN 151 ELSE 159)
  ELSE IF op = "<=" THEN (IF IsUnsigned(t) THEN 150 ELSE 158)
  ELSE IF op = ">=" THEN (IF IsUnsigned(t) THEN 147 ELSE 157)
  ELSE 148

\* setcc al; movzx rax, al
gen_setcc(s, cc) ==
  gen_modrm(g(g(gen_rex(gen_modrm(g(g(s, 15), cc), 3, 0, REG_RAX),
                        1, REG_RAX, 0, REG_RAX), 15), 182),
            3, REG_RAX, REG_RAX)

\* vtop->r = REG_RAX; vtop->type.t = VT_INT
SetTopInt(s) == SetTop(s, [Top(s) EXCEPT !.r = REG_RAX, !.t = VT_INT])

gen_opi_cmp_emit(s, op) ==
  LET r == BitAnd(Top1(s).r, 255)
      fr == BitAnd(Top(s).r, 255)
  IN SetTopInt(gen_setcc(vpop(gen_modrm(g(gen_rex(s, 1, r, 0, fr), 57),
                                        3, fr, r)),
                         setcc_op(op, Top1(s).t)))

gen_opi_cmp(s, op) == gen_opi_cmp_emit(gv2(s, RC_INT, RC_INT), op)

gen_opi_not_emit(s, r) == gen_modrm(g(gen_rex(s, 1, 0, 0, r), 247), 3, 2, r)

gen_opi_not(s) == gen_opi_not_emit(gv(s, RC_INT), gv_ret(s, RC_INT))

gen_opi_lnot_emit(s, r) ==
  SetTopR(gen_setcc(gen_modrm(g(gen_rex(s, 1, r, 0, r), 133), 3, r, r), 148),
          REG_RAX)

gen_opi_lnot(s) == gen_opi_lnot_emit(gv(s, RC_INT), gv_ret(s, RC_INT))

CmpOps == {"==", "!=", "<", ">", "<=", ">="}

gen_opi(s, op) ==
  IF vtop(s) < 1 /\ op # "!" /\ op # "~" THEN tcc_error(s)
  ELSE IF op \in AluOps THEN gen_opi_alu(s, alu_opcode(op))
  ELSE IF op = "*" THEN gen_opi_mul(s)
  ELSE IF op = "/" \/ op = "%" THEN gen_opi_div(s, op)
  ELSE IF op = "<<" \/ op = ">>" THEN gen_opi_shift(s, op)
  ELSE IF op \in CmpOps THEN gen_opi_cmp(s, op)
  ELSE IF op = "~" THEN gen_opi_not(s)
  ELSE IF op = "!" THEN gen_opi_lnot(s)
  ELSE s

(***************************************************************************)
(* Generic operations on the value stack.                                  *)
(***************************************************************************)
\* the store of gen_op's '=' case, on the state gv and vpop left
gen_op_assign_emit(s, r) == SetTopR(store(s, r, Top(s)), r)

gen_op_assign(s) ==
  IF vtop(s) < 1 THEN tcc_error(s)
  ELSE gen_op_assign_emit(vpop(gv(s, RC_INT)), gv_ret(s, RC_INT))

ArithOps == {"+", "-", "*", "/", "%", "&", "|", "^", "<<", ">>"}

gen_op(s, op) ==
  IF vtop(s) < 0 THEN tcc_error(s)
  ELSE IF op = "=" THEN gen_op_assign(s)
  ELSE IF op \in ArithOps \/ op \in CmpOps \/ op = "!" \/ op = "~"
  THEN gen_opi(IF op = "!" \/ op = "~" THEN gv(s, RC_INT) ELSE s, op)
  ELSE tcc_warning(s)

gen_cvt_itof(s, t) == tcc_warning(s)

gen_cvt_ftoi(s, t) == tcc_warning(s)

gen_cast(s, t) ==
  LET from_type == BitAnd(Top(s).t, VT_BTYPE)
      to_type == BitAnd(t, VT_BTYPE)
  IN IF from_type = to_type THEN SetTop(s, [Top(s) EXCEPT !.t = t])
     ELSE IF to_type >= VT_FLOAT /\ from_type < VT_FLOAT
     THEN gen_cvt_itof(s, t)
     ELSE IF from_type >= VT_FLOAT /\ to_type < VT_FLOAT
     THEN gen_cvt_ftoi(s, t)
     ELSE SetTop(s, [Top(s) EXCEPT !.t = t])


(***************************************************************************)
(* Function prologue, epilogue and calls.                                  *)
(***************************************************************************)
\* mov [rbp+disp8], reg
gen_spill_param(s, reg, disp) ==
  g(gen_modrm(g(gen_rex(s, 1, reg, 0, REG_RBP), 137), 1, reg, REG_RBP), disp)

gfunc_prolog(s) ==
  LET s1 == g(s, 85)
      s2 == gen_modrm(g(gen_rex(s1, 1, REG_RBP, 0, REG_RSP), 137),
                      3, REG_RSP, REG_RBP)
      s3 == g(gen_modrm(g(gen_rex(s2, 1, 0, 0, REG_RSP), 131), 3, 5, REG_RSP),
              96)
      s4 == gen_spill_param(s3, REG_RCX, 16)
      s5 == gen_spill_param(s4, REG_RDX, 24)
      s6 == gen_spill_param(s5, REG_R8, 32)
      s7 == gen_spill_param(s6, REG_R9, 40)
  IN [s7 EXCEPT !.loc = 0]

gfunc_epilog(s) ==
  g(g(gen_modrm(g(gen_rex(s, 1, REG_RSP, 0, REG_RBP), 137),
                3, REG_RBP, REG_RSP), 93), 195)

\* s->vtop->r, read without a bounds check: u is what lies before vstack[0]
TopR(s, u) == IF vtop(s) >= 0 THEN Top(s).r ELSE u

\* the register of argument i (i < 4)
arg_reg(i) ==
  IF i = 0 THEN REG_RCX
  ELSE IF i = 1 THEN REG_RDX
  ELSE IF i = 2 THEN REG_R8
  ELSE REG_R9

\* the class gv is asked for when placing argument i
arg_rc(i) ==
  IF i >= 4 THEN RC_INT
  ELSE IF i = 0 THEN RC_RCX
  ELSE IF i = 1 THEN RC_RDX
  ELSE RC_INT

\* an optional REX.B prefix, then the byte c
gen_rexb(s, r, c) == g(IF r > 7 THEN g(s, 65) ELSE s, c)

\* what gfunc_call emits for argument i once gv has loaded it
gfunc_call_arg_emit(s, i, u) ==
  LET src == BitAnd(TopR(s, u), 255)
  IN IF i >= 4 THEN vpop(gen_rexb(s, src, 80 + (src % 8)))
     ELSE IF src # arg_reg(i)
     THEN vpop(gen_modrm(g(gen_rex(s, 1, arg_reg(i), 0, src), 137),
                         3, src, arg_reg(i)))
     ELSE vpop(s)

\* one iteration of gfunc_call's argument loop
gfunc_call_arg(s, i, u) == gfunc_call_arg_emit(gv(s, arg_rc(i)), i, u)

RECURSIVE gfunc_call_args(_, _, _)
gfunc_call_args(s, i, u) ==
  IF i < 0 THEN s ELSE gfunc_call_args(gfunc_call_arg(s, i, u), i - 1, u)

\* the indirect call through the register gv left the callee in
gfunc_call_ind(s, u) ==
  LET r == BitAnd(TopR(s, u), 255)
  IN vpop(gen_modrm(gen_rexb(s, r, 255), 3, 2, r % 8))

\* the call instruction itself, once the arguments are placed
gfunc_call_insn(s, u) ==
  IF vtop(s) >= 0 /\ Top(s).sym # "NULL" THEN
    vpop(gen_le32(g(s, 232), 0))
  ELSE gfunc_call_ind(gv(s, RC_INT), u)

gfunc_call(s, nb_args, u) ==
  vset(gfunc_call_insn(gfunc_call_args(s, nb_args - 1, u), u),
       VT_INT, REG_RAX, 0)

(***************************************************************************)
(* Jumps and labels.  A label is an index into s.labels.                   *)
(***************************************************************************)
gind(s) == [s EXCEPT !.labels = Append(@, [r |-> 0, c |-> -1])]

\* the label gind returned, in the state gind left
gind_ret(s) == Len(s.labels)

\* a slot that is emitted but not linked into the label's chain
gen_jmp_slot_unlinked(s, l) ==
  IF s.labels[l].r = 1
  THEN gen_le32(s, s.labels[l].c - (s.ind + 4))
  ELSE gen_le32(s, s.labels[l].c)

\* the 32-bit slot of a jump to l, emitted at s.ind
gen_jmp_slot(s, l) ==
  IF s.labels[l].r = 1
  THEN gen_le32(s, s.labels[l].c - (s.ind + 4))
  ELSE LET s1 == gen_le32(s, s.labels[l].c)
       IN [s1 EXCEPT !.labels[l].c = s1.ind - 4]

gjmp(s, l) == gen_jmp_slot(g(s, 233), l)

\* test v, v; jz/jnz with a slot chained to l
gtst_emit(s, inv, l, v) ==
  gen_jmp_slot(g(g(gen_modrm(g(gen_rex(s, 1, v, 0, v), 133), 3, v, v), 15),
                 IF inv # 0 THEN 132 ELSE 133), l)

gtst(s, inv, l, u) ==
  IF BitAnd(TopR(s, u), 255) >= NB_REGS
  THEN gtst_emit(vpop(gv(s, RC_INT)), inv, l, gv_ret(s, RC_INT))
  ELSE gtst_emit(vpop(s), inv, l, BitAnd(TopR(s, u), 255))

\* the signed 32-bit value stored little-endian at offset p
Read32(code, p) ==
  code[p + 1] + 256 * code[p + 2] + 65536 * code[p + 3]
  + 16777216 * (IF code[p + 4] >= 128 THEN code[p + 4] - 256 ELSE code[p + 4])

Write32(code, p, v) ==
  [code EXCEPT ![p + 1] = v % 256,
               ![p + 2] = (v \div 256) % 256,
               ![p + 3] = (v \div 65536) % 256,
               ![p + 4] = (v \div 16777216) % 256]

\* glabel's loop over the fix-up chain, from slot p
RECURSIVE glabel_patch(_, _, _)
glabel_patch(code, p, target) ==
  IF p = -1 THEN code
  ELSE glabel_patch(Write32(code, p, target - (p + 4)), Read32(code, p),
                    target)

glabel(s, l) ==
  [s EXCEPT !.text = glabel_patch(s.text, s.labels[l].c, s.ind),
            !.labels[l] = [r |-> 1, c |-> s.ind]]


(***************************************************************************)
(* The target machine: a decoder and an executor for the x86-64 subset the *)
(* encoder emits, used to state what the emitted bytes do.  A value is     *)
(* defined (d), or only its low byte is (b), or it is undefined; reading   *)
(* an undefined location yields an undefined value.  A memory slot is      *)
(* keyed by its address and remembers whether all of its 8 bytes are the   *)
(* sign extension of v (full) or only the low 4.                           *)
(***************************************************************************)
StackFrames == 64
ValueLimit == 32768
MaxSteps == 80

EntryRsp == 16 * StackFrames + 8

V(v) == [d |-> TRUE, b |-> TRUE, v |-> v]

Undef == [d |-> FALSE, b |-> FALSE, v |-> 0]

Small(x) == x.d /\ x.v <= ValueLimit /\ 0 - x.v <= ValueLimit

Sign(v) == IF v < 0 THEN -1 ELSE 0

\* C division: the quotient truncated toward zero, and its remainder
TruncDiv(a, b) ==
  LET q == (IF a < 0 THEN 0 - a ELSE a) \div (IF b < 0 THEN 0 - b ELSE b)
  IN IF (a < 0) = (b < 0) THEN q ELSE 0 - q

TruncRem(a, b) == a - b * TruncDiv(a, b)

Byte(code, i) == IF i >= 0 /\ i < Len(code) THEN code[i + 1] ELSE -1

SByte(x) == IF x >= 128 THEN x - 256 ELSE x

\* prefixes, opcode and ModR/M of the instruction at offset pc
Decode(code, pc) ==
  LET p66 == Byte(code, pc) = 102
      q == IF p66 THEN pc + 1 ELSE pc
      b1 == Byte(code, q)
      hasRex == b1 >= 64 /\ b1 <= 79
      rex == IF hasRex THEN b1 - 64 ELSE 0
      o == IF hasRex THEN q + 1 ELSE q
      opc0 == Byte(code, o)
      two == opc0 = 15
      mo == IF two THEN o + 2 ELSE o + 1
      modrm == Byte(code, mo)
      mod == IF modrm < 0 THEN 3 ELSE modrm \div 64
      dlen == IF mod = 1 THEN 1 ELSE IF mod = 2 THEN 4 ELSE 0
  IN [p66 |-> p66,
      w |-> (rex \div 8) % 2 = 1,
      rexb |-> rex % 2,
      opc |-> IF two THEN 256 + Byte(code, o + 1) ELSE opc0,
      mod |-> mod,
      reg |-> IF modrm < 0 THEN 0 ELSE ((modrm \div 8) % 8) + 8 * ((rex \div 4) % 2),
      ext |-> IF modrm < 0 THEN 0 ELSE (modrm \div 8) % 8,
      rm |-> IF modrm < 0 THEN 0 ELSE (modrm % 8) + 8 * (rex % 2),
      disp |-> IF mod = 1 THEN SByte(Byte(code, mo + 1))
               ELSE IF mod = 2 /\ mo + 4 < Len(code) THEN Read32(code, mo + 1)
               ELSE 0,
      imm |-> mo,            \* offset of the bytes after the opcode
      next |-> mo + 1 + dlen \* offset of the bytes after ModR/M and disp
     ]

\* opcodes that take a ModR/M byte
ModrmOpcodes ==
  {1, 9, 33, 41, 49, 57, 99, 131, 133, 136, 137, 139, 141, 199, 211, 247,
   255, 256 + 175, 256 + 182, 256 + 183, 256 + 190, 256 + 191}
    \cup {256 + c : c \in 144..159}

MemRead(m, a, size) ==
  IF a \notin DOMAIN m.mem THEN Undef
  ELSE LET sl == m.mem[a]
       IN IF sl.d /\ (size < 8 \/ sl.full) THEN V(sl.v) ELSE Undef

MemWrite(m, a, x, size) ==
  LET keep == /\ a \in DOMAIN m.mem
              /\ m.mem[a].d /\ m.mem[a].full
              /\ Sign(m.mem[a].v) = Sign(x.v)
      sl == [v |-> x.v, d |-> x.d, full |-> size = 8 \/ keep]
  IN [m EXCEPT !.mem = (a :> sl) @@ m.mem]

\* the r/m operand: its address, its value, and the machine after a write
EA(m, i) == m.regs[i.rm].v + i.disp

EAok(m, i) == i.mod # 3 => (i.mod \in {1, 2} /\ i.rm % 8 # 4 /\ m.regs[i.rm].d)

ReadRM(m, i, size) ==
  IF i.mod = 3 THEN m.regs[i.rm] ELSE MemRead(m, EA(m, i), size)

WriteRM(m, i, x, size) ==
  IF i.mod = 3 THEN [m EXCEPT !.regs[i.rm] = x]
  ELSE MemWrite(m, EA(m, i), x, size)

Lift2(x, y, v) == IF Small(x) /\ Small(y) THEN V(v) ELSE Undef

\* the unsigned order on two's-complement values
ULess(a, b) == IF (a < 0) = (b < 0) THEN a < b ELSE b < 0

\* the condition code cc (low 4 bits of a setcc/jcc opcode) on the flags
Cond(fl, cc) ==
  LET a == fl.a
      b == fl.b
  IN CASE cc = 2 -> ULess(a, b)
       [] cc = 3 -> ~ULess(a, b)
       [] cc = 4 -> a = b
       [] cc = 5 -> a # b
       [] cc = 6 -> ULess(a, b) \/ a = b
       [] cc = 7 -> ULess(b, a)
       [] cc = 12 -> a < b
       [] cc = 13 -> a >= b
       [] cc = 14 -> a <= b
       [] cc = 15 -> a > b
       [] OTHER -> FALSE

CondOk(fl, cc) == fl.d /\ cc \in {2, 3, 4, 5, 6, 7, 12, 13, 14, 15}

Push(m, x) ==
  LET a == m.regs[REG_RSP].v - 8
  IN MemWrite([m EXCEPT !.regs[REG_RSP] = V(a)], a, x, 8)

Fault(m) == [m EXCEPT !.st = "fault"]


\* one `op r/m, reg` arithmetic result
AluResult(opc, x, y) ==
  CASE opc = 1 -> x + y
    [] opc = 41 -> x - y
    [] opc = 33 -> BitAnd(x, y)
    [] opc = 9 -> BitOr(x, y)
    [] OTHER -> BitXor(x, y)

ShiftResult(ext, x, n) ==
  IF ext = 4 THEN (IF n <= 15 /\ Small(x) THEN V(x.v * Pow2(n)) ELSE Undef)
  ELSE IF ~x.d THEN Undef
  ELSE IF ext = 5 /\ x.v < 0 /\ n > 0 THEN Undef
  ELSE IF n > 30 THEN V(Sign(x.v))
  ELSE V(x.v \div Pow2(n))

\* the registers a callee may change (Windows x64)
Volatile == {REG_RAX, REG_RCX, REG_RDX, REG_R8, REG_R9, 10, 11}

\* execute the instruction at m.rip; when m.over is set a call is stepped
\* over: the callee is taken to return with RSP and the non-volatile
\* registers as they were
Exec(m, code) ==
  LET i == Decode(code, m.rip)
      opc == i.opc
      size == IF i.w THEN 8 ELSE 4
      rmv == ReadRM(m, i, size)
      rgv == m.regs[i.reg]
      lowreg == (opc % 8) + 8 * i.rexb
      rax == m.regs[REG_RAX]
      rsp == m.regs[REG_RSP]
      Go(mm, n) == [mm EXCEPT !.rip = n]
      Call(target, ret) ==
        IF ~rsp.d THEN Fault(m)
        ELSE IF m.over THEN
          Go([m EXCEPT !.calls = Append(@, [rsp |-> rsp.v, at |-> m.rip]),
                       !.regs = [r \in 0..15 |->
                                   IF r \in Volatile THEN Undef ELSE @[r]]],
             ret)
        ELSE IF ~target.d THEN Fault(m)
        ELSE Go([Push(m, V(ret)) EXCEPT
                   !.calls = Append(@, [rsp |-> rsp.v, at |-> m.rip])],
                target.v)
  IN IF opc \in ModrmOpcodes /\ ~EAok(m, i) THEN Fault(m)
     ELSE CASE opc \in {1, 9, 33, 41, 49} ->
            Go(WriteRM(m, i,
                       IF opc = 49 /\ i.mod = 3 /\ i.reg = i.rm THEN V(0)
                       ELSE Lift2(rmv, rgv, AluResult(opc, rmv.v, rgv.v)),
                       size), i.next)
       [] opc = 57 ->
            Go([m EXCEPT !.fl = [a |-> rmv.v, b |-> rgv.v,
                                 d |-> rmv.d /\ rgv.d]], i.next)
       [] opc = 133 ->
            Go([m EXCEPT !.fl = [a |-> BitAnd(rmv.v, rgv.v), b |-> 0,
                                 d |-> Small(rmv) /\ Small(rgv)]], i.next)
       [] opc = 137 -> Go(WriteRM(m, i, rgv, size), i.next)
       [] opc = 139 ->
            Go([m EXCEPT !.regs[i.reg] =
                  IF i.w \/ (rmv.d /\ rmv.v >= 0) THEN rmv ELSE Undef],
               i.next)
       [] opc = 99 -> Go([m EXCEPT !.regs[i.reg] = ReadRM(m, i, 4)], i.next)
       [] opc = 141 ->
            IF i.mod = 3 THEN Fault(m)
            ELSE Go([m EXCEPT !.regs[i.reg] = V(EA(m, i))], i.next)
       [] opc = 199 /\ i.ext = 0 /\ i.next + 4 <= Len(code) ->
            Go(WriteRM(m, i, V(Read32(code, i.next)), size), i.next + 4)
       [] opc \in 184..191 /\ i.w /\ i.imm + 8 <= Len(code) ->
            Go([m EXCEPT !.regs[lowreg] =
                  IF Read32(code, i.imm + 4) = Sign(Read32(code, i.imm))
                  THEN V(Read32(code, i.imm)) ELSE Undef], i.imm + 8)
       [] opc = 247 /\ i.ext = 2 ->
            Go(WriteRM(m, i, IF rmv.d THEN V(BitNot(rmv.v)) ELSE Undef, size),
               i.next)
       [] opc = 247 /\ i.ext = 7 ->
            IF ~rmv.d \/ rmv.v = 0 THEN Fault(m)
            ELSE LET ok == rax.d /\ m.regs[REG_RDX].d
                           /\ m.regs[REG_RDX].v = Sign(rax.v)
                 IN Go([m EXCEPT
                          !.regs[REG_RAX] =
                             IF ok THEN V(TruncDiv(rax.v, rmv.v)) ELSE Undef,
                          !.regs[REG_RDX] =
                             IF ok THEN V(TruncRem(rax.v, rmv.v)) ELSE Undef],
                       i.next)
       [] opc = 211 /\ i.ext \in {4, 5, 7} ->
            Go(WriteRM(m, i,
                       IF m.regs[REG_RCX].b
                       THEN ShiftResult(i.ext, rmv, m.regs[REG_RCX].v % 64)
                       ELSE Undef, size), i.next)
       [] opc = 131 /\ i.ext \in {0, 5} /\ i.next < Len(code) ->
            LET k == SByte(Byte(code, i.next))
            IN Go(WriteRM(m, i,
                          IF Small(rmv)
                          THEN V(IF i.ext = 0 THEN rmv.v + k ELSE rmv.v - k)
                          ELSE Undef, size), i.next + 1)
       [] opc = 255 /\ i.ext = 2 -> Call(rmv, i.next)
       [] opc = 256 + 175 ->
            Go([m EXCEPT !.regs[i.reg] = Lift2(rgv, rmv, rgv.v * rmv.v)],
               i.next)
       [] opc = 256 + 182 ->
            LET src == ReadRM(m, i, 1)
            IN Go([m EXCEPT !.regs[i.reg] =
                     IF src.b THEN V(src.v % 256) ELSE Undef], i.next)
       [] opc \in {256 + c : c \in 144..159} /\ i.mod = 3 ->
            LET c == IF Cond(m.fl, opc % 16) THEN 1 ELSE 0
                old == m.regs[i.rm]
            IN Go([m EXCEPT !.regs[i.rm] =
                     IF ~CondOk(m.fl, opc % 16) THEN Undef
                     ELSE IF old.d THEN V((old.v - (old.v % 256)) + c)
                     ELSE [d |-> FALSE, b |-> TRUE, v |-> c]], i.next)
       [] opc \in {256 + 132, 256 + 133} /\ i.imm + 4 <= Len(code) ->
            IF ~CondOk(m.fl, opc % 16) THEN Fault(m)
            ELSE Go(m, IF Cond(m.fl, opc % 16)
                       THEN i.imm + 4 + Read32(code, i.imm)
                       ELSE i.imm + 4)
       [] opc \in 80..87 ->
            IF ~rsp.d THEN Fault(m) ELSE Go(Push(m, m.regs[lowreg]), i.imm)
       [] opc \in 88..95 ->
            IF ~rsp.d THEN Fault(m)
            ELSE Go([m EXCEPT !.regs[lowreg] = MemRead(m, rsp.v, 8),
                              !.regs[REG_RSP] =
                                 IF lowreg = REG_RSP
                                 THEN MemRead(m, rsp.v, 8)
                                 ELSE V(rsp.v + 8)], i.imm)
       [] opc = 153 /\ i.w ->
            Go([m EXCEPT !.regs[REG_RDX] =
                  IF rax.d THEN V(Sign(rax.v)) ELSE Undef], i.imm)
       [] opc = 195 ->
            LET ra == IF rsp.d THEN MemRead(m, rsp.v, 8) ELSE Undef
            IN IF ~ra.d THEN Fault(m)
               ELSE Go([m EXCEPT !.regs[REG_RSP] = V(rsp.v + 8)], ra.v)
       [] opc = 232 /\ i.imm + 4 <= Len(code) ->
            Call(V(i.imm + 4 + Read32(code, i.imm)), i.imm + 4)
       [] opc = 233 /\ i.imm + 4 <= Len(code) ->
            Go(m, i.imm + 4 + Read32(code, i.imm))
       [] OTHER -> Fault(m)

\* run from m until the code ends, returns to the caller of the entry
\* function (return address -1), reaches an offset in stop, or faults
RECURSIVE Run(_, _, _, _)
Run(m, code, stop, fuel) ==
  IF m.st # "run" THEN m
  ELSE IF m.rip \in stop THEN [m EXCEPT !.st = "stop"]
  ELSE IF m.rip = Len(code) THEN [m EXCEPT !.st = "end"]
  ELSE IF m.rip = -1 THEN [m EXCEPT !.st = "ret"]
  ELSE IF fuel = 0 THEN [m EXCEPT !.st = "fuel"]
  ELSE Run(Exec(m, code), code, stop, fuel - 1)

\* the machine on entry to the function at offset entry: the return
\* address on top of the stack, RSP = 8 mod 16, the caller's RBP, argument
\* registers as given, every other register undefined
Entry(entry, args) ==
  [regs |-> [r \in 0..15 |->
               IF r = REG_RSP THEN V(EntryRsp)
               ELSE IF r = REG_RBP THEN V(0)
               ELSE IF r \in DOMAIN args THEN V(args[r])
               ELSE Undef],
   mem |-> (EntryRsp :> [v |-> -1, d |-> TRUE, full |-> TRUE]),
   rip |-> entry,
   fl |-> [a |-> 0, b |-> 0, d |-> FALSE],
   st |-> "run",
   over |-> FALSE,
   calls |-> <<>>]

EntryOver(entry, args) == [Entry(entry, args) EXCEPT !.over = TRUE]


(***************************************************************************)
(* Symbols, as decl() creates them.                                        *)
(***************************************************************************)
\* a local variable of type t at frame offset c
LocalSym(name, t, c) == [name |-> name, t |-> t, r |-> VT_LOCAL, c |-> c]

\* parameter number i of a function: the frame slot 16 + 8*i
ParamSym(name, t, i) ==
  [name |-> name, t |-> t, r |-> VT_LOCAL, c |-> 16 + 8 * i]

\* a variable declared at file scope, at offset c of .data
GlobalSym(name, t, c) == [name |-> name, t |-> t, r |-> VT_SYM, c |-> c]

\* a function whose declarator was met when .text held c bytes
FuncSym(name, t, c) ==
  [name |-> name, t |-> BitOr(t, VT_FUNC), r |-> VT_CONST, c |-> c]

\* the frame offset decl() gives the next local of type t
decl_local_loc(s, t) ==
  LET size == TypeSize(t)
  IN s.loc - BitAnd(size + 7, BitNot(7))

(***************************************************************************)
(* Parser productions, as the code generation they drive.                  *)
(***************************************************************************)
SetTopSym(s, name) ==
  IF vtop(s) >= 0 THEN SetTop(s, [Top(s) EXCEPT !.sym = name]) ELSE s

expr_primary_num(s, v) == vset(s, VT_INT, VT_CONST, v)

expr_primary_ident(s, sym) ==
  IF BitAnd(sym.t, VT_BTYPE) = VT_FUNC
  THEN SetTopSym(vsetc(s, sym.t, BitOr(VT_CONST, VT_SYM), sym.c), sym.name)
  ELSE SetTopSym(vsetc(s, sym.t, BitOr(sym.r, VT_LVAL), sym.c), sym.name)

\* unary minus: push 0, swap, subtract
expr_unary_neg(s) == gen_op(vswap(vset(s, VT_INT, VT_CONST, 0)), "-")

\* dereference: mark the value as an lvalue
expr_unary_deref(s) ==
  IF vtop(s) >= 0
  THEN SetTop(s, [Top(s) EXCEPT !.r = BitOr(@, VT_LVAL)])
  ELSE s

\* sizeof expression: drop the value, push 4
expr_unary_sizeof(s) == vset(vpop(s), VT_INT, VT_CONST, 4)

\* array indexing: add, then mark as lvalue
expr_postfix_index(s) == expr_unary_deref(gen_op(s, "+"))

\* ++e, --e, e++ and e--: gen_op of '+' or '-' on the value alone
expr_unary_incdec(s, op) == gen_op(s, IF op = "++" THEN "+" ELSE "-")

\* !e and ~e
expr_unary_not(s, op) == gen_op(s, op)

\* &e: nothing is generated
expr_unary_addr(s) == s

\* (type) e
expr_unary_cast(s, t) == gen_cast(s, t)

\* e1 = e2 and the compound assignments, after the right operand
expr_eq(s) == gen_op(s, "=")

\* e(args), after the nb_args arguments
expr_postfix_call(s, nb_args, u) == gfunc_call(s, nb_args, u)

\* the initializer of a declaration of sym, once its expression is parsed
decl_init(s, sym) ==
  LET s1 == SetTopSym(vsetc(s, sym.t, BitOr(sym.r, VT_LVAL), sym.c), sym.name)
  IN vpop(gen_op(vswap(s1), "="))

\* the declaration `t name;` of a local variable: the state and the symbol
decl_local(s, t) == [s EXCEPT !.loc = decl_local_loc(s, t)]

\* return with a value: move it to RAX, drop it, emit the epilogue
statement_return(s, hasExpr) ==
  gfunc_epilog(IF hasExpr THEN vpop(gv(s, RC_RAX)) ELSE s)


(***************************************************************************)
(* The source being compiled, as history: the expression trees parsed so   *)
(* far, and the reference evaluator that gives a tree its C value.         *)
(***************************************************************************)
MaxLeaves == 4
MaxShift == 8

Num(v) == [k |-> "num", v |-> v]

Var(sym) == [k |-> "var", sym |-> sym]

Bin(op, l, r) == [k |-> "bin", op |-> op, l |-> l, r |-> r]

Un(op, e) == [k |-> "un", op |-> op, e |-> e]

CallOf(f, args) == [k |-> "call", f |-> f, args |-> args]

\* the value of `x op y` in C, for operands on which it is defined
EvalBin(op, x, y) ==
  CASE op = "+" -> x + y
    [] op = "-" -> x - y
    [] op = "*" -> x * y
    [] op = "/" -> TruncDiv(x, y)
    [] op = "%" -> TruncRem(x, y)
    [] op = "&" -> BitAnd(x, y)
    [] op = "|" -> BitOr(x, y)
    [] op = "^" -> BitXor(x, y)
    [] op = "<<" -> x * Pow2(y)
    [] op = ">>" -> x \div Pow2(y)
    [] op = "==" -> IF x = y THEN 1 ELSE 0
    [] op = "!=" -> IF x # y THEN 1 ELSE 0
    [] op = "<" -> IF x < y THEN 1 ELSE 0
    [] op = ">" -> IF x > y THEN 1 ELSE 0
    [] op = "<=" -> IF x <= y THEN 1 ELSE 0
    [] op = ">=" -> IF x >= y THEN 1 ELSE 0
    [] OTHER -> 0

\* `x op y` has a defined value, within the range the model computes in
Defined(op, x, y) ==
  /\ x <= ValueLimit /\ 0 - x <= ValueLimit
  /\ y <= ValueLimit /\ 0 - y <= ValueLimit
  /\ op \in {"/", "%"} => y # 0
  /\ op = "<<" => (x >= 0 /\ y >= 0 /\ y <= MaxShift)
  /\ op = ">>" => (y >= 0 /\ y <= MaxShift)

\* the value the function's frame gives each local at its declaration
LocalA == LocalSym("a", VT_INT, -8)

LocalB == LocalSym("b", VT_INT, -16)

InitA == 7
InitB == 3

RECURSIVE Eval(_)
Eval(e) ==
  CASE e.k = "num" -> e.v
    [] e.k = "var" -> IF e.sym.name = "a" THEN InitA ELSE InitB
    [] e.k = "bin" -> EvalBin(e.op, Eval(e.l), Eval(e.r))
    [] OTHER -> 0

\* every operation of the tree has a defined value
RECURSIVE WellDefined(_)
WellDefined(e) ==
  CASE e.k = "bin" -> /\ WellDefined(e.l)
                      /\ WellDefined(e.r)
                      /\ Defined(e.op, Eval(e.l), Eval(e.r))
    [] e.k \in {"num", "var"} -> TRUE
    [] OTHER -> FALSE

RECURSIVE Leaves(_)
Leaves(e) ==
  CASE e.k = "bin" -> Leaves(e.l) + Leaves(e.r)
    [] e.k = "un" -> Leaves(e.e)
    [] e.k = "call" -> LET RECURSIVE sum(_)
                           sum(i) == IF i = 0 THEN 0
                                     ELSE Leaves(e.args[i]) + sum(i - 1)
                       IN Leaves(e.f) + sum(Len(e.args))
    [] OTHER -> 1

RECURSIVE LeavesOf(_)
LeavesOf(st) ==
  IF st = <<>> THEN 0 ELSE Leaves(Head(st)) + LeavesOf(Tail(st))

RECURSIVE Nodes(_)
Nodes(e) ==
  CASE e.k = "bin" -> 1 + Nodes(e.l) + Nodes(e.r)
    [] e.k = "un" -> 1 + Nodes(e.e)
    [] e.k = "call" -> LET RECURSIVE sum(_)
                           sum(i) == IF i = 0 THEN 0
                                     ELSE Nodes(e.args[i]) + sum(i - 1)
                       IN 1 + Nodes(e.f) + sum(Len(e.args))
    [] OTHER -> 1

RECURSIVE NodesOf(_)
NodesOf(st) ==
  IF st = <<>> THEN 0 ELSE Nodes(Head(st)) + NodesOf(Tail(st))

AstTop == ast[Len(ast)]

\* the two topmost trees replaced by one
Reduce2(st, e) == Append(SubSeq(st, 1, Len(st) - 2), e)

Reduce1(st, e) == Append(SubSeq(st, 1, Len(st) - 1), e)

(***************************************************************************)
(* The function under compilation: `int f() { int a = 7; int b = 3; ...`   *)
(* after decl() has emitted the prologue and the two initialised locals.   *)
(***************************************************************************)
FuncBody ==
  LET s0 == gfunc_prolog(tcc_new)
      s1 == decl_init(expr_primary_num(decl_local(s0, VT_INT), InitA), LocalA)
  IN decl_init(expr_primary_num(decl_local(s1, VT_INT), InitB), LocalB)

GenInit(s, c) ==
  /\ vstack = s.vstack
  /\ text = s.text
  /\ ind = s.ind
  /\ loc = s.loc
  /\ nb_errors = s.nb_errors
  /\ nb_warnings = s.nb_warnings
  /\ labels = s.labels
  /\ ast = <<>>
  /\ ctl = c
  /\ sites = <<>>
  /\ callsites = <<>>
  /\ funcs = <<>>
  /\ mark = "init"

InitWith(s, c) ==
  /\ GenInit(s, c)
  /\ drv = <<>>
  /\ stacks = <<>>
  /\ sec = <<>>
  /\ pe = <<>>

InitFrom(s) == InitWith(s, <<>>)

\* the parser proceeds while no error is recorded and the source read so
\* far leaves room for one more leaf, or one more operator
RoomForLeaf(maxLeaves, maxNodes) ==
  nb_errors = 0 /\ LeavesOf(ast) < maxLeaves /\ NodesOf(ast) < maxNodes

RoomForOp(maxNodes) == nb_errors = 0 /\ NodesOf(ast) < maxNodes

(***************************************************************************)
(* Expression events: one action per production, taken when the parser has *)
(* parsed the operands the production needs.                               *)
(***************************************************************************)
\* expr_primary on a number
ExprNum(vals) ==
  \E v \in vals :
    /\ Commit(expr_primary_num(S, v))
    /\ ast' = Append(ast, Num(v))
    /\ mark' = "primary"
    /\ UNCHANGED <<ctl, sites, callsites, funcs>>

\* expr_primary on a declared identifier
ExprIdent(syms) ==
  \E sym \in syms :
    /\ Commit(expr_primary_ident(S, sym))
    /\ ast' = Append(ast, Var(sym))
    /\ mark' = "primary"
    /\ UNCHANGED <<ctl, sites, callsites, funcs>>

\* the loop body of a binary production, after its right operand
ExprBinary(ops) ==
  \E op \in ops :
    /\ Len(ast) >= 2
    /\ Commit(gen_op(S, op))
    /\ ast' = Reduce2(ast, Bin(op, ast[Len(ast) - 1], AstTop))
    /\ mark' = "binary"
    /\ UNCHANGED <<ctl, sites, callsites, funcs>>

(***************************************************************************)
(* SpecArith: integer expressions over literals and int locals.            *)
(***************************************************************************)
ArithNums == {2}

\* one or two operators for each branch of gen_opi
ArithOpsTried == {"+", "-", "*", "/", "%", "&", "<<", "<"}

ArithInit == InitFrom(FuncBody)

ArithLeaf == RoomForLeaf(MaxLeaves, 2 * MaxLeaves)

ArithOp == RoomForOp(2 * MaxLeaves)

ArithNext ==
  \/ ArithLeaf /\ ExprNum(ArithNums)
  \/ ArithLeaf /\ ExprIdent({LocalA})
  \/ ArithOp /\ ExprBinary(ArithOpsTried)

SpecArith == ArithInit /\ [][ArithNext]_vars

\* the machine after running the function from its entry to the end of
\* the text emitted so far
RunBody == Run(Entry(0, <<>>), text, {}, MaxSteps)

\* C3: once a complete expression built from the arithmetic, bitwise, shift
\* and comparison operators over literals and int locals is compiled, and
\* no operation in it is undefined, the emitted code leaves the value the
\* reference evaluator gives the expression in the register the final
\* value-stack entry names
C3_ArithValue ==
  (/\ nb_errors = 0
   /\ Len(ast) = 1
   /\ Len(vstack) = 1
   /\ AstTop.k = "bin"
   /\ WellDefined(AstTop))
    => /\ vstack[1].r < NB_REGS
       /\ RunBody.st = "end"
       /\ RunBody.regs[vstack[1].r] = V(Eval(AstTop))


(***************************************************************************)
(* SpecExpr: every production of the expression grammar over literals,     *)
(* locals, a global and a function name.                                   *)
(***************************************************************************)
MaxExprLeaves == 3
MaxExprNodes == 4
MaxArgs == 2

GlobalG == GlobalSym("g", VT_INT, 0)

FuncF == FuncSym("f", VT_INT, 0)

\* what precedes vstack[0] in TCCState, read as an SValue's r field when
\* the value stack is empty
BeforeStack == {0, VT_CONST}

\* the trees expr_postfix can continue: primaries and postfix results
IsPostfix(e) == e.k \in {"num", "var", "call"} \/ (e.k = "un" /\ e.op = "[]")

\* unary minus
ExprNeg ==
  /\ Len(ast) >= 1
  /\ Commit(expr_unary_neg(S))
  /\ ast' = Reduce1(ast, Un("-", AstTop))
  /\ mark' = "unary"
  /\ UNCHANGED <<ctl, sites, callsites, funcs>>

\* !e, ~e
ExprNot ==
  \E op \in {"!", "~"} :
    /\ Len(ast) >= 1
    /\ Commit(expr_unary_not(S, op))
    /\ ast' = Reduce1(ast, Un(op, AstTop))
    /\ mark' = "unary"
    /\ UNCHANGED <<ctl, sites, callsites, funcs>>

\* ++e, --e, and e++, e-- on a postfix expression
ExprIncDec ==
  \E op \in {"++", "--"} :
    /\ Len(ast) >= 1
    /\ Commit(expr_unary_incdec(S, op))
    /\ ast' = Reduce1(ast, Un(op, AstTop))
    /\ mark' = "unary"
    /\ UNCHANGED <<ctl, sites, callsites, funcs>>

\* *e
ExprDeref ==
  /\ Len(ast) >= 1
  /\ Commit(expr_unary_deref(S))
  /\ ast' = Reduce1(ast, Un("*", AstTop))
  /\ mark' = "unary"
  /\ UNCHANGED <<ctl, sites, callsites, funcs>>

\* &e
ExprAddr ==
  /\ Len(ast) >= 1
  /\ Commit(expr_unary_addr(S))
  /\ ast' = Reduce1(ast, Un("&", AstTop))
  /\ mark' = "unary"
  /\ UNCHANGED <<ctl, sites, callsites, funcs>>

\* sizeof e
ExprSizeof ==
  /\ Len(ast) >= 1
  /\ Commit(expr_unary_sizeof(S))
  /\ ast' = Reduce1(ast, Un("sizeof", AstTop))
  /\ mark' = "unary"
  /\ UNCHANGED <<ctl, sites, callsites, funcs>>

\* (type) e
ExprCast ==
  \E t \in {VT_INT, VT_BYTE, VT_FLOAT} :
    /\ Len(ast) >= 1
    /\ Commit(expr_unary_cast(S, t))
    /\ ast' = Reduce1(ast, Un("cast", AstTop))
    /\ mark' = "unary"
    /\ UNCHANGED <<ctl, sites, callsites, funcs>>

\* e1 = e2
ExprAssign ==
  /\ Len(ast) >= 2
  /\ Commit(expr_eq(S))
  /\ ast' = Reduce2(ast, Bin("=", ast[Len(ast) - 1], AstTop))
  /\ mark' = "binary"
  /\ UNCHANGED <<ctl, sites, callsites, funcs>>

\* e1[e2]
ExprIndex ==
  /\ Len(ast) >= 2
  /\ IsPostfix(ast[Len(ast) - 1])
  /\ Commit(expr_postfix_index(S))
  /\ ast' = Reduce2(ast, Un("[]", Bin("+", ast[Len(ast) - 1], AstTop)))
  /\ mark' = "postfix"
  /\ UNCHANGED <<ctl, sites, callsites, funcs>>

\* e(args) with n arguments
ExprCall(maxArgs) ==
  \E n \in 0..maxArgs, u \in BeforeStack :
    /\ Len(ast) >= n + 1
    /\ IsPostfix(ast[Len(ast) - n])
    /\ Commit(expr_postfix_call(S, n, u))
    /\ ast' = Append(SubSeq(ast, 1, Len(ast) - n - 1),
                     CallOf(ast[Len(ast) - n],
                            SubSeq(ast, Len(ast) - n + 1, Len(ast))))
    /\ callsites' = Append(callsites, [from |-> ind, to |-> ind', k |-> n])
    /\ mark' = "postfix"
    /\ UNCHANGED <<ctl, sites, funcs>>

\* gv(RC_INT) on the value an expression left, as gen_op does for ! and ~,
\* gfunc_call for its later arguments and statement() for do/while
GvInt ==
  /\ Len(ast) >= 1
  /\ mark # "gv"
  /\ Commit(gv(S, RC_INT))
  /\ mark' = "gv"
  /\ UNCHANGED <<ast, ctl, sites, callsites, funcs>>

ExprOps == {"+", "*", "/", "<<", "==", "<", "|", "||", "&&"}

ExprInit == InitFrom(FuncBody)

ExprLeaf == RoomForLeaf(MaxExprLeaves, MaxExprNodes)

ExprOp == RoomForOp(MaxExprNodes)

ExprNext ==
  \/ ExprLeaf /\ ExprNum(ArithNums)
  \/ ExprLeaf /\ ExprIdent({LocalA, GlobalG, FuncF})
  \/ ExprOp /\ ExprBinary(ExprOps)
  \/ ExprOp /\ ExprAssign
  \/ ExprOp /\ ExprNeg
  \/ ExprOp /\ ExprNot
  \/ ExprOp /\ ExprIncDec
  \/ ExprOp /\ ExprDeref
  \/ ExprOp /\ ExprAddr
  \/ ExprOp /\ ExprSizeof
  \/ ExprOp /\ ExprCast
  \/ ExprOp /\ ExprIndex
  \/ ExprOp /\ ExprCall(MaxArgs)
  \/ nb_errors = 0 /\ GvInt

SpecExpr == ExprInit /\ [][ExprNext]_vars

\* C2: while no error is recorded, every completed expression has left
\* exactly one value: the value stack is as deep as the number of
\* expressions parsed and not yet consumed by an enclosing production
C2_OneValuePerExpr == nb_errors = 0 => Len(vstack) = Len(ast)

\* the tree is an expression with an integer result: not a function name,
\* not a cast to a floating type
IsIntExpr(e) == ~(e.k = "var" /\ BitAnd(e.sym.t, VT_BTYPE) = VT_FUNC)

\* C10: after gv(RC_INT) on the value of an integer expression, the r
\* field of the top entry names a register
C10_GvLeavesRegister ==
  (/\ mark = "gv"
   /\ nb_errors = 0
   /\ Len(vstack) = Len(ast)
   /\ IsIntExpr(AstTop))
    => Top(S).r < NB_REGS


(***************************************************************************)
(* SpecCall: a function of k int parameters that returns their sum, then a *)
(* caller whose return expression calls it.                                *)
(***************************************************************************)
MaxCallArgs == 6
MaxCallLeaves == 7
MaxCallNodes == 8

ParamNames == <<"a", "b", "c", "d", "e", "f">>

\* the body expression a + b + ... over the first k parameters
RECURSIVE sum_params(_, _, _)
sum_params(s, i, k) ==
  IF i >= k THEN s
  ELSE sum_params(
         IF i = 0
         THEN expr_primary_ident(s, ParamSym(ParamNames[1], VT_INT, 0))
         ELSE gen_op(expr_primary_ident(s, ParamSym(ParamNames[i + 1],
                                                    VT_INT, i)), "+"),
         i + 1, k)

\* decl() on `int add(int a, ...) { return a + ...; }`
decl_func(s, k) == statement_return(sum_params(gfunc_prolog(s), 0, k), TRUE)

\* the length of the prologue gfunc_prolog emits
PrologLen == Len(gfunc_prolog(tcc_new).text)

DeclCallee ==
  \E k \in {2, 4, 6} :
    /\ funcs = <<>>
    /\ Commit(decl_func(S, k))
    /\ funcs' = <<[params |-> k, sym |-> FuncSym("add", VT_INT, ind)]>>
    /\ mark' = "decl"
    /\ UNCHANGED <<ast, ctl, sites, callsites>>

\* decl() on `int main() {`, up to the body
DeclCaller ==
  /\ Len(funcs) = 1
  /\ Commit(gfunc_prolog(S))
  /\ funcs' = Append(funcs, [params |-> 0, sym |-> FuncSym("main", VT_INT, ind)])
  /\ mark' = "prolog"
  /\ UNCHANGED <<ast, ctl, sites, callsites>>

\* the stack of open constructs once a statement has been parsed at the
\* current position: a block counts it, every other construct has then
\* had its body
Close(c) ==
  IF c = <<>> THEN c
  ELSE IF c[Len(c)].k = "block" THEN [c EXCEPT ![Len(c)].n = @ + 1]
  ELSE [c EXCEPT ![Len(c)].done = TRUE]

Pop(c) == SubSeq(c, 1, Len(c) - 1)

\* return; and return e;
StmtReturn ==
  \E hasExpr \in BOOLEAN :
    /\ Len(ast) = (IF hasExpr THEN 1 ELSE 0)
    /\ Commit(statement_return(S, hasExpr))
    /\ ast' = <<>>
    /\ ctl' = Close(ctl)
    /\ mark' = "return"
    /\ UNCHANGED <<sites, callsites, funcs>>

CallInit == InitFrom(tcc_new)

InCaller == Len(funcs) = 2 /\ mark # "return"

CallLeaf == InCaller /\ RoomForLeaf(MaxCallLeaves, MaxCallNodes)

CallOp == InCaller /\ RoomForOp(MaxCallNodes)

CallNext ==
  \/ DeclCallee
  \/ DeclCaller
  \/ CallLeaf /\ ExprNum({10 * Len(ast)})
  \/ CallLeaf /\ ExprIdent({funcs[1].sym})
  \/ CallOp /\ ExprCall(MaxCallArgs)
  \/ InCaller /\ StmtReturn

SpecCall == CallInit /\ [][CallNext]_vars


(***************************************************************************)
(* What the bytes of a call site are and do.                               *)
(***************************************************************************)
\* the offset of the byte after the instruction at pc, or -1
InsnEnd(code, pc) ==
  LET i == Decode(code, pc)
  IN CASE i.opc \in 80..95 \/ i.opc \in {153, 195} -> i.imm
       [] i.opc \in {232, 233, 256 + 132, 256 + 133} -> i.imm + 4
       [] i.opc \in 184..191 -> i.imm + 8
       [] i.opc = 199 -> i.next + 4
       [] i.opc = 131 -> i.next + 1
       [] i.opc \in ModrmOpcodes -> i.next
       [] OTHER -> -1

\* what an instruction does to the stack pointer, or that it is a call
StackOp(code, pc) ==
  LET i == Decode(code, pc)
  IN CASE i.opc \in 80..87 -> [op |-> "push", n |-> 8]
       [] i.opc = 131 /\ i.mod = 3 /\ i.rm = REG_RSP /\ i.ext = 5 ->
            [op |-> "sub", n |-> SByte(Byte(code, i.next))]
       [] i.opc = 131 /\ i.mod = 3 /\ i.rm = REG_RSP /\ i.ext = 0 ->
            [op |-> "add", n |-> SByte(Byte(code, i.next))]
       [] i.opc = 232 \/ (i.opc = 255 /\ i.ext = 2) -> [op |-> "call", n |-> 0]
       [] OTHER -> [op |-> "none", n |-> 0]

\* the stack operations and calls among the instructions of code[pc .. to)
RECURSIVE StackOps(_, _, _)
StackOps(code, pc, to) ==
  IF pc >= to \/ InsnEnd(code, pc) <= pc THEN <<>>
  ELSE IF StackOp(code, pc).op = "none"
  THEN StackOps(code, InsnEnd(code, pc), to)
  ELSE <<StackOp(code, pc)>> \o StackOps(code, InsnEnd(code, pc), to)

\* the sequence the calling convention asks of a call with k arguments
RECURSIVE Pushes(_)
Pushes(n) == IF n <= 0 THEN <<>> ELSE <<[op |-> "push", n |-> 8]>> \o Pushes(n - 1)

StackArgs(k) == IF k > 4 THEN k - 4 ELSE 0

AbiStackOps(k) ==
  Pushes(StackArgs(k))
    \o <<[op |-> "sub", n |-> 32], [op |-> "call", n |-> 0],
         [op |-> "add", n |-> 32 + 8 * StackArgs(k)]>>

LastSite == callsites[Len(callsites)]

\* the call instruction is the last one gfunc_call emits: FF /2 on a
\* register, or E8 and its four displacement bytes
CallAt(site) == IF text[site.to - 1] = 255 THEN site.to - 2 ELSE site.to - 5

Caller == funcs[2].sym

Callee == funcs[1]

\* the last event was a call, compiled without error
AfterCall ==
  /\ mark = "postfix"
  /\ nb_errors = 0
  /\ callsites # <<>>
  /\ Len(ast) >= 1
  /\ AstTop.k = "call"

\* the call just compiled passes literals only
LiteralArgs == \A j \in 1..Len(AstTop.args) : AstTop.args[j].k = "num"

\* the call just compiled names the function defined before the caller
DirectCall == AstTop.f.k = "var" /\ AstTop.f.sym = Callee.sym

\* the caller run from its entry up to the call instruction just emitted,
\* earlier calls stepped over
AtCall == Run(EntryOver(Caller.c, <<>>), text, {CallAt(LastSite)}, MaxSteps)

\* the machine m, stopped at a call instruction, after a call to target
\* that returns to ret
EnterCall(m, target, ret) ==
  [Push(m, V(ret)) EXCEPT !.rip = target, !.st = "run"]

InCallee == EnterCall(AtCall, Callee.sym.c, LastSite.to)

AfterProlog == Run(InCallee, text, {Callee.sym.c + PrologLen}, MaxSteps)

AfterCallee == Run(InCallee, text, {LastSite.to}, MaxSteps)

RECURSIVE SumArgs(_, _)
SumArgs(args, n) == IF n = 0 THEN 0 ELSE args[n].v + SumArgs(args, n - 1)

\* C4: when the caller passes k literals to the function defined with k
\* parameters, after the callee's prologue the slot [rbp+16+8*i] holds
\* argument i for every i < k, and the callee returns the sum
C4_ArgsReachParams ==
  (AfterCall /\ DirectCall /\ LiteralArgs /\ LastSite.k = Callee.params)
    => /\ AtCall.st = "stop"
       /\ AfterProlog.st = "stop"
       /\ \A i \in 0..(LastSite.k - 1) :
            MemRead(AfterProlog,
                    AfterProlog.regs[REG_RBP].v + 16 + 8 * i, 4)
              = V(AstTop.args[i + 1].v)
       /\ AfterCallee.st = "stop"
       /\ AfterCallee.regs[REG_RAX] = V(SumArgs(AstTop.args, LastSite.k))

\* C5: at the call instruction of a call with literal arguments, argument
\* 0 is in RCX, argument 1 in RDX, argument 2 in R8 and argument 3 in R9
C5_ArgRegisters ==
  (AfterCall /\ LiteralArgs /\ LastSite.k >= 1)
    => /\ AtCall.st = "stop"
       /\ \A i \in 0..(LastSite.k - 1) :
            i < 4 => AtCall.regs[arg_reg(i)] = V(AstTop.args[i + 1].v)

\* C6: the stack operations among the instructions gfunc_call emitted for
\* a call with k arguments are the pushes of the stack arguments, then
\* sub rsp, 32, then the call, then the add rsp that releases both
C6_CallSequence ==
  AfterCall
    => StackOps(text, LastSite.from, LastSite.to) = AbiStackOps(LastSite.k)

\* C7: a direct call to the function defined earlier is E8 followed by
\* the displacement from the end of its slot to the function's first byte
C7_CallDisplacement ==
  (AfterCall /\ DirectCall)
    => /\ text[LastSite.to - 4] = 232
       /\ Read32(text, LastSite.to - 4) = Callee.sym.c - LastSite.to

\* the caller run from its entry over everything emitted so far
CallerRun == Run(EntryOver(Caller.c, <<>>), text, {}, MaxSteps)

\* C8: with RSP = 8 mod 16 on entry to the caller, RSP is a multiple of 16
\* at every call instruction reached, each call emitted so far being
\* reached
C8_AlignedAtCall ==
  AfterCall
    => /\ Len(CallerRun.calls) = Len(callsites)
       /\ \A j \in 1..Len(CallerRun.calls) : CallerRun.calls[j].rsp % 16 = 0


(***************************************************************************)
(* SpecLabel: labels from gind, jumps to them interleaved with the code of *)
(* the tested values, and at most one glabel for each.                     *)
(***************************************************************************)
MaxLabels == 2
MaxJumps == 3

\* the labels by number, and the jumps emitted so far to all of them
Labels == 1..Len(labels)

RECURSIVE JumpsFrom(_)
JumpsFrom(i) == IF i = 0 THEN 0 ELSE Len(sites[i].slots) + JumpsFrom(i - 1)

Jumps == JumpsFrom(Len(sites))

LblGind ==
  /\ Len(labels) < MaxLabels
  /\ Commit(gind(S))
  /\ sites' = Append(sites, [slots |-> <<>>, at |-> -1])
  /\ mark' = "gind"
  /\ UNCHANGED <<ast, ctl, callsites, funcs>>

LblJmp ==
  \E l \in Labels :
    /\ Jumps < MaxJumps
    /\ Commit(gjmp(S, l))
    /\ sites' = [sites EXCEPT ![l].slots = Append(@, ind' - 4)]
    /\ mark' = "gjmp"
    /\ UNCHANGED <<ast, ctl, callsites, funcs>>

\* the test of `if (a)`, `while (a)` and `for (;a;)`, which statement()
\* makes with inv = 1: the code that loads a is emitted between the jumps
LblTst ==
  \E l \in Labels :
    /\ Jumps < MaxJumps
    /\ vstack = <<>>
    /\ Commit(gtst(expr_primary_ident(S, LocalA), 1, l, 0))
    /\ sites' = [sites EXCEPT ![l].slots = Append(@, ind' - 4)]
    /\ mark' = "gtst"
    /\ UNCHANGED <<ast, ctl, callsites, funcs>>

LblLabel ==
  \E l \in Labels :
    /\ labels[l].r = 0
    /\ Commit(glabel(S, l))
    /\ sites' = [sites EXCEPT ![l].at = ind]
    /\ mark' = "glabel"
    /\ UNCHANGED <<ast, ctl, callsites, funcs>>

LabelInit == InitFrom(FuncBody)

LabelNext ==
  \/ LblGind
  \/ LblJmp
  \/ LblTst
  \/ LblLabel

SpecLabel == LabelInit /\ [][LabelNext]_vars

\* the slots met from offset p along the stored 32-bit values, at most n
\* of them; the walk ends at -1, a walk cut short ends with -2
RECURSIVE Chain(_, _, _)
Chain(code, p, n) ==
  IF p = -1 THEN <<>>
  ELSE IF n = 0 \/ p < 0 \/ p + 4 > Len(code) THEN <<-2>>
  ELSE <<p>> \o Chain(code, Read32(code, p), n - 1)

RECURSIVE Reverse(_)
Reverse(q) == IF q = <<>> THEN <<>> ELSE Append(Reverse(Tail(q)), Head(q))

\* C9: for an undefined label the chain from l.c is the slots of the jumps
\* emitted to it, latest first, each once, ending at -1; for a defined
\* label r = 1, c is ind at the time of glabel and every slot of a jump to
\* it, emitted before or after, holds c - (slot + 4)
C9_LabelChains ==
  \A l \in Labels :
    IF labels[l].r = 0
    THEN /\ sites[l].at = -1
         /\ Chain(text, labels[l].c, Len(sites[l].slots) + 1)
              = Reverse(sites[l].slots)
    ELSE /\ labels[l].r = 1
         /\ labels[l].c = sites[l].at
         /\ \A j \in 1..Len(sites[l].slots) :
              Read32(text, sites[l].slots[j])
                = labels[l].c - (sites[l].slots[j] + 4)

\* a label defined after two jumps to it and followed by a third
C9_Witness ==
  \E l \in Labels :
    /\ labels[l].r = 1
    /\ Len(sites[l].slots) = 3
    /\ sites[l].slots[2] < labels[l].c
    /\ sites[l].slots[3] > labels[l].c


(***************************************************************************)
(* SpecStmt: the statements of a function body.  ctl holds the constructs  *)
(* statement() is inside of, innermost last, with the labels each one got  *)
(* from gind.                                                              *)
(***************************************************************************)
MaxNest == 1
MaxStmts == 2
MaxStmtLeaves == 2

Open(k, l1, l2, l3, l4) ==
  [k |-> k, done |-> FALSE, n |-> 0,
   l1 |-> l1, l2 |-> l2, l3 |-> l3, l4 |-> l4]

CtlTop == ctl[Len(ctl)]

\* statement() is about to be called: in a block, or for the body of a
\* construct that has none yet
AtStatement ==
  /\ nb_errors = 0
  /\ ctl # <<>>
  /\ CtlTop.k \in {"block", "if", "else", "while", "for", "do"}
  /\ ~CtlTop.done
  /\ CtlTop.n < MaxStmts

\* an expression may be read here: where a statement may start, or where
\* a construct expects its condition, clause or initializer
AtExpr ==
  /\ nb_errors = 0
  /\ ctl # <<>>
  /\ \/ AtStatement
     \/ CtlTop.k \in {"whilecond", "for1", "for2", "for3", "decl"}
     \/ CtlTop.k = "do" /\ CtlTop.done

\* the body of the innermost construct has been parsed
BodyDone(k) == nb_errors = 0 /\ ctl # <<>> /\ CtlTop.k = k /\ CtlTop.done

Retop(c, k) == [c EXCEPT ![Len(c)].k = k, ![Len(c)].done = FALSE]

\* e;
StmtExpr ==
  /\ AtStatement
  /\ Len(ast) = 1
  /\ Commit(vpop(S))
  /\ ast' = <<>>
  /\ ctl' = Close(ctl)
  /\ mark' = "statement"
  /\ UNCHANGED <<sites, callsites, funcs>>

\* ; break; continue;
StmtSimple ==
  \E kind \in {";", "break", "continue"} :
    /\ AtStatement
    /\ ast = <<>>
    /\ Commit(S)
    /\ ctl' = Close(ctl)
    /\ mark' = "statement"
    /\ UNCHANGED <<ast, sites, callsites, funcs>>

StmtBlock ==
  /\ AtStatement
  /\ ast = <<>>
  /\ Len(ctl) <= MaxNest
  /\ Commit(S)
  /\ ctl' = Append(ctl, Open("block", 0, 0, 0, 0))
  /\ mark' = "open"
  /\ UNCHANGED <<ast, sites, callsites, funcs>>

StmtBlockEnd ==
  /\ nb_errors = 0
  /\ Len(ctl) > 1
  /\ CtlTop.k = "block"
  /\ ast = <<>>
  /\ Commit(S)
  /\ ctl' = Close(Pop(ctl))
  /\ mark' = "statement"
  /\ UNCHANGED <<ast, sites, callsites, funcs>>

\* if (e): gind, gtst
statement_if(s, u) == gtst(gind(s), 1, gind_ret(gind(s)), u)

StmtIf ==
  \E u \in BeforeStack :
    /\ AtStatement
    /\ Len(ast) = 1
    /\ Len(ctl) <= MaxNest
    /\ Commit(statement_if(S, u))
    /\ ast' = <<>>
    /\ ctl' = Append(ctl, Open("if", Len(labels) + 1, 0, 0, 0))
    /\ mark' = "open"
    /\ UNCHANGED <<sites, callsites, funcs>>

StmtIfEnd ==
  /\ BodyDone("if")
  /\ ast = <<>>
  /\ Commit(glabel(S, CtlTop.l1))
  /\ ctl' = Close(Pop(ctl))
  /\ mark' = "statement"
  /\ UNCHANGED <<ast, sites, callsites, funcs>>

\* else: gind, gjmp over the else branch, glabel of the if's label
statement_else(s, l1) == glabel(gjmp(gind(s), gind_ret(gind(s))), l1)

StmtElse ==
  /\ BodyDone("if")
  /\ ast = <<>>
  /\ Commit(statement_else(S, CtlTop.l1))
  /\ ctl' = [Retop(ctl, "else") EXCEPT ![Len(ctl)].l2 = Len(labels) + 1]
  /\ mark' = "open"
  /\ UNCHANGED <<ast, sites, callsites, funcs>>

StmtElseEnd ==
  /\ BodyDone("else")
  /\ ast = <<>>
  /\ Commit(glabel(S, CtlTop.l2))
  /\ ctl' = Close(Pop(ctl))
  /\ mark' = "statement"
  /\ UNCHANGED <<ast, sites, callsites, funcs>>


\* while: two labels, the first defined at the top of the loop
statement_while(s) == glabel(gind(gind(s)), Len(s.labels) + 1)

StmtWhile ==
  /\ AtStatement
  /\ ast = <<>>
  /\ Len(ctl) <= MaxNest
  /\ Commit(statement_while(S))
  /\ ctl' = Append(ctl, Open("whilecond", Len(labels) + 1, Len(labels) + 2,
                             0, 0))
  /\ mark' = "open"
  /\ UNCHANGED <<ast, sites, callsites, funcs>>

\* while (e): gtst to the end label
StmtWhileCond ==
  \E u \in BeforeStack :
    /\ nb_errors = 0
    /\ CtlTop.k = "whilecond"
    /\ Len(ast) = 1
    /\ Commit(gtst(S, 1, CtlTop.l2, u))
    /\ ast' = <<>>
    /\ ctl' = Retop(ctl, "while")
    /\ mark' = "open"
    /\ UNCHANGED <<sites, callsites, funcs>>

statement_while_end(s, l1, l2) == glabel(gjmp(s, l1), l2)

StmtWhileEnd ==
  /\ BodyDone("while")
  /\ ast = <<>>
  /\ Commit(statement_while_end(S, CtlTop.l1, CtlTop.l2))
  /\ ctl' = Close(Pop(ctl))
  /\ mark' = "statement"
  /\ UNCHANGED <<ast, sites, callsites, funcs>>

\* for: l_cond, l_end, l_update, l_body
StmtFor ==
  /\ AtStatement
  /\ ast = <<>>
  /\ Len(ctl) <= MaxNest
  /\ Commit(gind(gind(gind(gind(S)))))
  /\ ctl' = Append(ctl, Open("for1", Len(labels) + 1, Len(labels) + 2,
                             Len(labels) + 3, Len(labels) + 4))
  /\ mark' = "open"
  /\ UNCHANGED <<ast, sites, callsites, funcs>>

\* for (e1; : the value of e1 is dropped, l_cond is defined
statement_for_init(s, has, l_cond) == glabel(IF has THEN vpop(s) ELSE s, l_cond)

StmtForInit ==
  \E has \in BOOLEAN :
    /\ nb_errors = 0
    /\ CtlTop.k = "for1"
    /\ Len(ast) = (IF has THEN 1 ELSE 0)
    /\ Commit(statement_for_init(S, has, CtlTop.l1))
    /\ ast' = <<>>
    /\ ctl' = Retop(ctl, "for2")
    /\ mark' = "open"
    /\ UNCHANGED <<sites, callsites, funcs>>

\* e2; : gtst to l_end, gjmp to l_body, l_update is defined
statement_for_cond(s, has, l_end, l_update, l_body, u) ==
  glabel(gjmp(IF has THEN gtst(s, 1, l_end, u) ELSE s, l_body), l_update)

StmtForCond ==
  \E has \in BOOLEAN, u \in BeforeStack :
    /\ nb_errors = 0
    /\ CtlTop.k = "for2"
    /\ Len(ast) = (IF has THEN 1 ELSE 0)
    /\ Commit(statement_for_cond(S, has, CtlTop.l2, CtlTop.l3, CtlTop.l4, u))
    /\ ast' = <<>>
    /\ ctl' = Retop(ctl, "for3")
    /\ mark' = "open"
    /\ UNCHANGED <<sites, callsites, funcs>>

\* e3) : the value is dropped, gjmp to l_cond, l_body is defined
statement_for_update(s, has, l_cond, l_body) ==
  glabel(gjmp(IF has THEN vpop(s) ELSE s, l_cond), l_body)

StmtForUpdate ==
  \E has \in BOOLEAN :
    /\ nb_errors = 0
    /\ CtlTop.k = "for3"
    /\ Len(ast) = (IF has THEN 1 ELSE 0)
    /\ Commit(statement_for_update(S, has, CtlTop.l1, CtlTop.l4))
    /\ ast' = <<>>
    /\ ctl' = Retop(ctl, "for")
    /\ mark' = "open"
    /\ UNCHANGED <<sites, callsites, funcs>>

StmtForEnd ==
  /\ BodyDone("for")
  /\ ast = <<>>
  /\ Commit(glabel(gjmp(S, CtlTop.l3), CtlTop.l2))
  /\ ctl' = Close(Pop(ctl))
  /\ mark' = "statement"
  /\ UNCHANGED <<ast, sites, callsites, funcs>>

StmtDo ==
  /\ AtStatement
  /\ ast = <<>>
  /\ Len(ctl) <= MaxNest
  /\ Commit(S)
  /\ ctl' = Append(ctl, Open("do", 0, 0, 0, 0))
  /\ mark' = "open"
  /\ UNCHANGED <<ast, sites, callsites, funcs>>

\* while (e); after the body of a do: gv, vpop
StmtDoEnd ==
  /\ BodyDone("do")
  /\ Len(ast) = 1
  /\ Commit(vpop(gv(S, RC_INT)))
  /\ ast' = <<>>
  /\ ctl' = Close(Pop(ctl))
  /\ mark' = "statement"
  /\ UNCHANGED <<sites, callsites, funcs>>

\* int c = : the local gets its frame slot before the initializer is read
DeclLocal ==
  /\ AtStatement
  /\ CtlTop.k = "block"
  /\ ast = <<>>
  /\ Commit(decl_local(S, VT_INT))
  /\ ctl' = Append(ctl, Open("decl", 0, 0, 0, 0))
  /\ mark' = "open"
  /\ UNCHANGED <<ast, sites, callsites, funcs>>

\* e; after int c = : the store to c
DeclInit ==
  /\ nb_errors = 0
  /\ CtlTop.k = "decl"
  /\ Len(ast) = 1
  /\ Commit(decl_init(S, LocalSym("c", VT_INT, loc)))
  /\ ast' = <<>>
  /\ ctl' = Close(Pop(ctl))
  /\ mark' = "decl"
  /\ UNCHANGED <<sites, callsites, funcs>>

\* inside the block that is the body of the function
StmtInit == InitWith(FuncBody, <<Open("block", 0, 0, 0, 0)>>)

StmtLeaf == AtExpr /\ RoomForLeaf(MaxStmtLeaves, 2 * MaxStmtLeaves)

StmtOp == AtExpr /\ RoomForOp(2 * MaxStmtLeaves)

StmtNext ==
  \/ StmtLeaf /\ ExprIdent({LocalA})
  \/ StmtOp /\ ExprBinary({"+", "||"})
  \/ StmtExpr
  \/ StmtSimple
  \/ AtStatement /\ StmtReturn
  \/ StmtBlock
  \/ StmtBlockEnd
  \/ StmtIf
  \/ StmtIfEnd
  \/ StmtElse
  \/ StmtElseEnd
  \/ StmtWhile
  \/ StmtWhileCond
  \/ StmtWhileEnd
  \/ StmtFor
  \/ StmtForInit
  \/ StmtForCond
  \/ StmtForUpdate
  \/ StmtForEnd
  \/ StmtDo
  \/ StmtDoEnd
  \/ DeclLocal
  \/ DeclInit

SpecStmt == StmtInit /\ [][StmtNext]_vars

\* C1: while no error is recorded, the value stack is empty each time a
\* statement has been parsed and after each declaration with an
\* initializer
C1_EmptyAfterStatement ==
  (nb_errors = 0 /\ mark \in {"statement", "return", "decl"})
    => vstack = <<>>

(***************************************************************************)
(* SpecLocal: one function whose block declares typed locals, a scalar     *)
(* and an array that moves the frame offset past the 8-bit range, and      *)
(* then reads and assigns them.                                            *)
(***************************************************************************)
VT_ARRAY == 32

MaxLocals == 1
ArrayLen == 16

LocalTypes ==
  {VT_BYTE, VT_SHORT, VT_INT, VT_LLONG, VT_PTR,
   VT_BYTE + VT_UNSIGNED, VT_SHORT + VT_UNSIGNED, VT_INT + VT_UNSIGNED}

IsArray(sym) == BitAnd(sym.t, VT_ARRAY) # 0

LocalSyms == {funcs[i].sym : i \in 1..Len(funcs)}

Arrays == {sym \in LocalSyms : IsArray(sym)}

\* the declaration `t name[n];` of a local array
decl_array(s, n) == [s EXCEPT !.loc = @ - n * 8]

\* T v;
DeclVar ==
  \E t \in LocalTypes :
    /\ AtStatement
    /\ CtlTop.k = "block"
    /\ ast = <<>>
    /\ Cardinality(LocalSyms \ Arrays) < MaxLocals
    /\ Commit(decl_local(S, t))
    /\ funcs' = Append(funcs,
                       [params |-> 0,
                        sym |-> LocalSym(ParamNames[Len(funcs) + 1], t,
                                         decl_local_loc(S, t))])
    /\ mark' = "declarator"
    /\ UNCHANGED <<ast, ctl, sites, callsites>>

\* T v[n]; as the first declaration of the block
DeclArray ==
  \E t \in {VT_INT} :
    /\ AtStatement
    /\ CtlTop.k = "block"
    /\ ast = <<>>
    /\ funcs = <<>>
    /\ Commit(decl_array(S, ArrayLen))
    /\ funcs' = Append(funcs,
                       [params |-> 0,
                        sym |-> LocalSym(ParamNames[Len(funcs) + 1],
                                         BitOr(t, VT_ARRAY),
                                         loc - ArrayLen * 8)])
    /\ mark' = "declarator"
    /\ UNCHANGED <<ast, ctl, sites, callsites>>

LocalInit == InitWith(gfunc_prolog(tcc_new), <<Open("block", 0, 0, 0, 0)>>)

\* the block up to the end of its first statement or initializer
InFirst == AtExpr /\ CtlTop.n = 0

LocalLeaf == InFirst /\ RoomForLeaf(MaxStmtLeaves, MaxStmtLeaves + 1)

LocalNext ==
  \/ CtlTop.n = 0 /\ DeclVar
  \/ CtlTop.n = 0 /\ DeclArray
  \/ LocalLeaf /\ ExprNum(ArithNums)
  \/ LocalLeaf /\ ExprIdent(LocalSyms)
  \/ InFirst /\ ExprAssign
  \/ CtlTop.n = 0 /\ StmtExpr

SpecLocal == LocalInit /\ [][LocalNext]_vars

\* the offsets at which the instructions of code[pc .. to) start
RECURSIVE InsnStarts(_, _, _)
InsnStarts(code, pc, to) ==
  IF pc >= to \/ InsnEnd(code, pc) <= pc THEN <<>>
  ELSE <<pc>> \o InsnStarts(code, InsnEnd(code, pc), to)

\* the memory operand of the instruction at pc: whether it is read or
\* written, how many bytes, how a value read is extended to the register,
\* and the addressing form
Access(code, pc) ==
  LET i == Decode(code, pc)
  IN [kind |-> CASE i.opc \in {136, 137} -> "store"
                 [] i.opc \in {99, 139, 256 + 182, 256 + 183, 256 + 190,
                               256 + 191} -> "load"
                 [] OTHER -> "none",
      width |-> CASE i.opc \in {136, 256 + 182, 256 + 190} -> 1
                  [] i.opc \in {256 + 183, 256 + 191} -> 2
                  [] i.opc = 99 -> 4
                  [] i.opc \in {137, 139} ->
                       IF i.p66 THEN 2 ELSE IF i.w THEN 8 ELSE 4
                  [] OTHER -> 0,
      ext |-> CASE i.opc \in {256 + 182, 256 + 183} -> "zero"
                [] i.opc \in {256 + 190, 256 + 191} -> "sign"
                [] i.opc = 99 /\ i.w -> "sign"
                [] i.opc = 139 -> IF i.w THEN "full" ELSE "zero"
                [] OTHER -> "none",
      mod |-> i.mod, rm |-> i.rm, disp |-> i.disp]

\* instruction number n from the end of the text, the last being 0
InsnFromEnd(n) ==
  LET starts == InsnStarts(text, 0, Len(text))
  IN IF Len(starts) > n THEN Access(text, starts[Len(starts) - n])
     ELSE Access(<<>>, 0)

\* the operand a declared at offset c with type t calls for
WidthOf(t) ==
  CASE BitAnd(t, VT_BTYPE) = VT_BYTE -> 1
    [] BitAnd(t, VT_BTYPE) = VT_SHORT -> 2
    [] BitAnd(t, VT_BTYPE) = VT_INT -> 4
    [] OTHER -> 8

OperandOf(a, sym) ==
  /\ a.rm = REG_RBP
  /\ a.mod = (IF sym.c >= -128 /\ sym.c <= 127 THEN 1 ELSE 2)
  /\ a.disp = sym.c
  /\ a.width = WidthOf(sym.t)

IsStoreOf(a, sym) == a.kind = "store" /\ OperandOf(a, sym)

IsLoadOf(a, sym) ==
  /\ a.kind = "load"
  /\ OperandOf(a, sym)
  /\ a.ext = (IF a.width = 8 THEN "full"
              ELSE IF BitAnd(sym.t, VT_UNSIGNED) # 0 THEN "zero" ELSE "sign")

IsVar(e) == e.k = "var"

AssignsVar == mark = "binary" /\ AstTop.k = "bin" /\ AstTop.op = "=" /\ IsVar(AstTop.l)

\* C11: the store an assignment emits for a local, and the load emitted
\* for a local that is the right operand of an assignment, address
\* [rbp + c] in the 8-bit form when c fits and the 32-bit form otherwise, with the width of the variable's base type
\* (1, 2, 4 or 8 bytes) and, for loads, zero or sign extension as the type
\* is unsigned or not
C11_LocalAccess ==
  nb_errors = 0 =>
    /\ AssignsVar => IsStoreOf(InsnFromEnd(0), AstTop.l.sym)
    /\ (AssignsVar /\ IsVar(AstTop.r)) => IsLoadOf(InsnFromEnd(1), AstTop.r.sym)

\* an unsigned local beyond the 8-bit range assigned to itself
C11_Witness ==
  /\ nb_errors = 0
  /\ AssignsVar
  /\ IsVar(AstTop.r)
  /\ AstTop.l.sym.c < -128
  /\ BitAnd(AstTop.r.sym.t, VT_UNSIGNED) # 0

(***************************************************************************)
(* Globals: the file-scope variable g of SpecExpr, assigned in a function. *)
(***************************************************************************)
\* the operand is memory outside the frame of the function
IsStaticOperand(a) == a.mod # 3 /\ ~(a.mod \in {1, 2} /\ a.rm = REG_RBP)

\* C12: an assignment to the global g ends with a store instruction whose
\* operand is g's slot, a memory operand that is not a frame slot
C12_GlobalStore ==
  (nb_errors = 0 /\ AssignsVar /\ AstTop.l.sym = GlobalG)
    => (InsnFromEnd(0).kind = "store" /\ IsStaticOperand(InsnFromEnd(0)))

(***************************************************************************)
(* do S while (e); in SpecStmt.                                            *)
(***************************************************************************)
\* the instruction at pc is a conditional jump to an offset below limit
IsBranchBack(code, pc, limit) ==
  LET i == Decode(code, pc)
  IN /\ i.opc \in {256 + c : c \in 128..143}
     /\ i.imm + 4 <= Len(code)
     /\ i.imm + 4 + Read32(code, i.imm) < limit

\* C13: the step that ends a do/while, taken once S and e are compiled,
\* emits a conditional branch back into the code already emitted, where
\* the code of S starts
C13_DoBranchesBack ==
  [][StmtDoEnd =>
       \E n \in 1..Len(InsnStarts(text', ind, ind')) :
         IsBranchBack(text', InsnStarts(text', ind, ind')[n], ind)]_vars

(***************************************************************************)
(* SpecDriver: main().  The command line is read one argument at a time,   *)
(* then tcc_compile and tcc_output_file run.  What the parser does to the  *)
(* error count is an input: parse_file records any number of errors.       *)
(***************************************************************************)
MaxArgv == 5
MaxParseErrors == 3

ArgKinds == {"-o", "-c", "-v", "-h", "-x", "file"}

Exit(d, status) == [d EXCEPT !.pc = "exit", !.status = status]

\* one iteration of the loop over argv; more says whether an argument
\* follows the one read
main_arg(d, a, more) ==
  CASE a = "-o" -> IF more
                   THEN [d EXCEPT !.outfile = TRUE, !.n = @ + 2, !.pc = "args"]
                   ELSE Exit(d, 1)
    [] a = "-c" -> [d EXCEPT !.compile_only = TRUE, !.n = @ + 1, !.pc = "args"]
    [] a \in {"-v", "-h"} -> Exit(d, 0)
    [] a = "-x" -> Exit(d, 1)
    [] OTHER -> [d EXCEPT !.infile = TRUE, !.n = @ + 1, !.pc = "args"]

\* argc < 2
MainUsage ==
  /\ drv.pc = "main"
  /\ drv' = Exit(drv, 1)
  /\ UNCHANGED <<nb_errors, gen, stacks, sec, pe>>

MainArg ==
  \E a \in ArgKinds, more \in BOOLEAN :
    /\ drv.pc \in {"main", "args"}
    /\ drv.n + (IF more THEN 1 ELSE 0) < MaxArgv
    /\ drv' = main_arg(drv, a, more)
    /\ UNCHANGED <<nb_errors, gen, stacks, sec, pe>>

\* the loop is over: no input file, or tcc_new and the call of tcc_compile
MainArgsEnd ==
  /\ drv.pc = "args"
  /\ drv' = IF drv.infile THEN [drv EXCEPT !.pc = "open"] ELSE Exit(drv, 1)
  /\ UNCHANGED <<nb_errors, gen, stacks, sec, pe>>

\* tcc_open: an error when the file cannot be opened
tcc_open(n, ok) == IF ok THEN n ELSE n + 1

TccOpen ==
  \E ok \in BOOLEAN :
    /\ drv.pc = "open"
    /\ nb_errors' = tcc_open(nb_errors, ok)
    /\ drv' = [drv EXCEPT !.pc = "parse", !.file = ok]
    /\ UNCHANGED <<gen, stacks, sec, pe>>

\* next and parse_file: without a file the first token is the end of file
ParseFile ==
  \E k \in 0..MaxParseErrors :
    /\ drv.pc = "parse"
    /\ drv.file \/ k = 0
    /\ nb_errors' = nb_errors + k
    /\ drv' = [drv EXCEPT !.pc = "close"]
    /\ UNCHANGED <<gen, stacks, sec, pe>>

\* the constant result, whatever was recorded
tcc_compile_ok(n) == 0

\* the value tcc_compile returns
tcc_compile(n) == IF n # 0 THEN -1 ELSE 0

\* tcc_close, the return of tcc_compile and the test main makes of it
TccCompileReturn ==
  /\ drv.pc = "close"
  /\ drv' = IF tcc_compile(nb_errors) = -1
            THEN Exit([drv EXCEPT !.compiled = nb_errors], 1)
            ELSE [drv EXCEPT !.compiled = nb_errors, !.pc = "output"]
  /\ UNCHANGED <<nb_errors, gen, stacks, sec, pe>>

\* tcc_output_file: pe_output_file fails when the file cannot be created
TccOutputFile ==
  \E ok \in BOOLEAN :
    /\ drv.pc = "output"
    /\ nb_errors' = IF ok THEN nb_errors ELSE nb_errors + 1
    /\ drv' = Exit([drv EXCEPT !.called = TRUE, !.created = ok],
                   IF ok THEN 0 ELSE 1)
    /\ UNCHANGED <<gen, stacks, sec, pe>>

DriverInit ==
  /\ GenInit(tcc_new, <<>>)
  /\ drv = [pc |-> "main", n |-> 1, infile |-> FALSE, outfile |-> FALSE,
            compile_only |-> FALSE, file |-> FALSE, compiled |-> -1,
            called |-> FALSE, created |-> FALSE, status |-> -1]
  /\ stacks = <<>>
  /\ sec = <<>>
  /\ pe = <<>>

DriverNext ==
  \/ MainUsage
  \/ MainArg
  \/ MainArgsEnd
  \/ TccOpen
  \/ ParseFile
  \/ TccCompileReturn
  \/ TccOutputFile

SpecDriver == DriverInit /\ [][DriverNext]_vars

\* C14: once tcc_compile has returned with errors recorded, the open
\* failure included, tcc_output_file has not been and is not called, no
\* output file exists and main has returned 1; main returns 0 only with no
\* error recorded by compilation or by the output step
C14_NoOutputAfterErrors ==
  /\ drv.compiled > 0 =>
       (~drv.called /\ ~drv.created /\ drv.pc = "exit" /\ drv.status = 1)
  /\ (drv.pc = "exit" /\ drv.status = 0) => nb_errors = 0
  /\ drv.created => (drv.called /\ drv.compiled = 0)

\* the input file could not be opened and main has returned
C14_Witness ==
  drv.pc = "exit" /\ ~drv.file /\ drv.compiled = 1 /\ drv.outfile

(***************************************************************************)
(* The value stack on its own: any sequence of vset, vsetc, vpush, vpop    *)
(* and vswap from the empty stack of tcc_new.  Each operator below gives   *)
(* the indices of vstack[] that the call reads or writes, relative to      *)
(* s->vstack.                                                              *)
(***************************************************************************)
MaxMarked == 1
MaxStackErrors == 1

\* the entry vset(s, VT_INT, VT_CONST, 0) leaves, and the one the sequence
\* pushes with vsetc
PlainEntry == SValue(VT_INT, VT_CONST, 0, "NULL")

LvalEntry == SValue(VT_INT, VT_LOCAL + VT_LVAL, -8, "NULL")

\* what vstack[-1] may hold: the fields local_stack.top .. local_scope of
\* TCCState, read as an SValue
Below == {PlainEntry, [t |-> 1, r |-> 0, r2 |-> 1, c |-> 1, sym |-> "local_scope"]}

Marked(st) == Cardinality({i \in 1..Len(st) : st[i] # PlainEntry})

\* vsetc: s->vtop->t = t ... after the increment
vsetc_writes(s) == IF vtop(s) + 1 >= VSTACK_SIZE THEN {} ELSE {vtop(s) + 1}

\* vpush: *s->vtop = *(s->vtop - 1) after the increment
vpush_reads(s) == IF vtop(s) + 1 >= VSTACK_SIZE THEN {} ELSE {vtop(s)}

vpush_writes(s) == IF vtop(s) + 1 >= VSTACK_SIZE THEN {} ELSE {vtop(s) + 1}

\* vswap: s->vtop[0] and s->vtop[-1]
vswap_touches(s) == IF vtop(s) < 1 THEN {} ELSE {vtop(s), vtop(s) - 1}

Vset ==
  /\ Commit(vset(S, VT_INT, VT_CONST, 0))
  /\ mark' = "vset"
  /\ UNCHANGED <<ast, ctl, sites, callsites, funcs>>

Vsetc ==
  /\ Commit(vsetc(S, LvalEntry.t, LvalEntry.r, LvalEntry.c))
  /\ mark' = "vsetc"
  /\ UNCHANGED <<ast, ctl, sites, callsites, funcs>>

Vpush ==
  /\ \E below \in Below :
       /\ vpush_source(S, below) # PlainEntry => Marked(vstack) < MaxMarked
       /\ Commit(vpush(S, below))
  /\ mark' = "vpush"
  /\ UNCHANGED <<ast, ctl, sites, callsites, funcs>>

Vpop ==
  /\ Commit(vpop(S))
  /\ mark' = "vpop"
  /\ UNCHANGED <<ast, ctl, sites, callsites, funcs>>

Vswap ==
  /\ Commit(vswap(S))
  /\ mark' = "vswap"
  /\ UNCHANGED <<ast, ctl, sites, callsites, funcs>>

VstackInit == InitFrom(tcc_new)

VstackNext ==
  \/ nb_errors < MaxStackErrors /\ Vset
  \/ nb_errors < MaxStackErrors /\ Marked(vstack) < MaxMarked /\ Vsetc
  \/ nb_errors < MaxStackErrors /\ Vpush
  \/ nb_errors < MaxStackErrors /\ Vpop
  \/ nb_errors < MaxStackErrors /\ Vswap

SpecVstack == VstackInit /\ [][VstackNext]_vars

\* the indices the call named op touches in state s
Touched(op, s) ==
  CASE op = "vset" -> vsetc_writes(s)
    [] op = "vsetc" -> vsetc_writes(s)
    [] op = "vpush" -> vpush_reads(s) \cup vpush_writes(s)
    [] op = "vswap" -> vswap_touches(s)
    [] OTHER -> {}

\* a push on a full stack, a pop on an empty one, a swap of fewer than two
Misuse(op, depth) ==
  \/ op \in {"vset", "vsetc", "vpush"} /\ depth = VSTACK_SIZE
  \/ op = "vpop" /\ depth = 0
  \/ op = "vswap" /\ depth < 2

\* C15: for any sequence of vset, vsetc, vpush, vpop and vswap calls the
\* depth stays within 0..256, every entry a call reads or writes lies in
\* vstack[0..255], and a push at depth 256, a pop at depth 0 and a swap at
\* depth below 2 add one to nb_errors and leave the stack as it was.
C15_StackBounds ==
  [][/\ Len(vstack') \in 0..VSTACK_SIZE
     /\ Touched(mark', S) \subseteq 0..(VSTACK_SIZE - 1)
     /\ Misuse(mark', Len(vstack)) =>
          (nb_errors' = nb_errors + 1 /\ vstack' = vstack)]_vars

(***************************************************************************)
(* The symbol table (sym.c).  A Sym pointer is an index into heap, 0 being *)
(* NULL; a name is the sequence of its characters' codes.  hash_table is   *)
(* kept for the buckets the names of the model fall into.                  *)
(***************************************************************************)
SYM_HASH_SIZE == 8192

\* a NULL name pointer; the lexer yields no empty identifier
NoName == <<>>

\* "main" and "majO", which str_hash puts in the bucket of "main"
NameMain == <<109, 97, 105, 110>>

NameMajO == <<109, 97, 106, 79>>

Names == {NameMain, NameMajO}

\* h is an unsigned int; the model keeps its low 26 bits, which decide
\* the 13 bits the mask retains
RECURSIVE str_hash_from(_, _, _)
str_hash_from(h, name, i) ==
  IF i > Len(name) THEN BitAnd(h, SYM_HASH_SIZE - 1)
  ELSE str_hash_from((h * 31 + name[i]) % 67108864, name, i + 1)

str_hash(name) == str_hash_from(0, name, 1)

Buckets == {str_hash(n) : n \in Names}

sym_init == [hash_table |-> [h \in Buckets |-> 0], top |-> 0]

\* the stacks of tcc_new; fault records a dereference of NULL
NoSyms ==
  [heap |-> <<>>, global_stack |-> sym_init, local_stack |-> sym_init,
   local_scope |-> 0, fault |-> FALSE]

\* the stack sym_push2 pushes on
PushesLocal(tb) == tb.local_scope > 0

sym_push2_on(st, p, name) ==
  [hash_table |-> IF name # NoName
                  THEN [st.hash_table EXCEPT ![str_hash(name)] = p]
                  ELSE st.hash_table,
   top |-> p]

sym_push2_sym(st, name, t, r, c) ==
  [name |-> name, v |-> IF name # NoName THEN str_hash(name) ELSE 0,
   t |-> t, r |-> r, c |-> c, prev |-> st.top,
   prev_tok |-> IF name # NoName THEN st.hash_table[str_hash(name)] ELSE 0,
   live |-> TRUE]

\* the symbol returned is the last of heap
sym_push2(tb, name, t, r, c) ==
  IF PushesLocal(tb)
  THEN [tb EXCEPT
          !.heap = Append(@, sym_push2_sym(tb.local_stack, name, t, r, c)),
          !.local_stack = sym_push2_on(@, Len(tb.heap) + 1, name)]
  ELSE [tb EXCEPT
          !.heap = Append(@, sym_push2_sym(tb.global_stack, name, t, r, c)),
          !.global_stack = sym_push2_on(@, Len(tb.heap) + 1, name)]

\* tcc_free of the symbol p: the allocator gives a freed address again, the
\* most recently allocated first
RECURSIVE tcc_free_trim(_)
tcc_free_trim(heap) ==
  IF heap # <<>> /\ ~heap[Len(heap)].live
  THEN tcc_free_trim(SubSeq(heap, 1, Len(heap) - 1))
  ELSE heap

tcc_free(heap, p) == tcc_free_trim([heap EXCEPT ![p].live = FALSE])

\* sym_pop with the bucket left as it is
RECURSIVE sym_pop_keep(_, _, _)
sym_pop_keep(heap, st, b) ==
  IF st.top = b THEN [heap |-> heap, st |-> st, fault |-> FALSE]
  ELSE IF st.top = 0 THEN [heap |-> heap, st |-> st, fault |-> TRUE]
  ELSE sym_pop_keep(tcc_free(heap, st.top),
                    [st EXCEPT !.top = heap[st.top].prev], b)

\* sym_pop on one stack: the heap, the stack and whether NULL was
\* dereferenced
RECURSIVE sym_pop(_, _, _)
sym_pop(heap, st, b) ==
  IF st.top = b THEN [heap |-> heap, st |-> st, fault |-> FALSE]
  ELSE IF st.top = 0 THEN [heap |-> heap, st |-> st, fault |-> TRUE]
  ELSE LET sym == heap[st.top]
       IN sym_pop(tcc_free(heap, st.top),
                  [top |-> sym.prev,
                   hash_table |->
                     IF sym.name # NoName
                     THEN [st.hash_table EXCEPT ![str_hash(sym.name)] =
                                                  sym.prev_tok]
                     ELSE st.hash_table],
                  b)

\* the head of the bucket, whatever its name
sym_find_head(heap, p, name) == p

\* the loop of sym_find2 over one bucket chain, from symbol p
RECURSIVE sym_find_chain(_, _, _)
sym_find_chain(heap, p, name) ==
  IF p = 0 THEN 0
  ELSE IF heap[p].name # NoName /\ heap[p].name = name THEN p
  ELSE sym_find_chain(heap, heap[p].prev_tok, name)

sym_find2(tb, name) ==
  LET l == sym_find_chain(tb.heap, tb.local_stack.hash_table[str_hash(name)],
                          name)
  IN IF l # 0 THEN l
     ELSE sym_find_chain(tb.heap,
                         tb.global_stack.hash_table[str_hash(name)], name)

(***************************************************************************)
(* SpecSym: the calls the parser makes on the table.  A function           *)
(* declarator raises local_scope around its parameters; a block raises it, *)
(* records the top of the local stack and pops down to it at its end.      *)
(* funcs lists the symbols pushed and not popped, oldest first; each open  *)
(* block remembers in ctl what the table was when it was entered.          *)
(***************************************************************************)
MaxSyms == 3
MaxScopes == 2

\* what SpecSym leaves alone
nosym == <<vstack, text, ind, loc, nb_errors, nb_warnings, labels, ast, sites,
           callsites, drv, sec, pe>>

Live(heap) == {p \in 1..Len(heap) : heap[p].live}

Lookups(tb) == [n \in Names |-> sym_find2(tb, n)]

SymPush ==
  \E name \in Names \cup {NoName} :
    /\ stacks' = sym_push2(stacks, name, VT_INT, VT_LOCAL, 0)
    /\ funcs' = Append(funcs, [p |-> Len(stacks.heap) + 1, name |-> name,
                               local |-> PushesLocal(stacks)])
    /\ mark' = "push"
    /\ UNCHANGED <<ctl, nosym>>

\* decl: the '(' of a function declarator
SymFuncEnter ==
  /\ stacks' = [stacks EXCEPT !.local_scope = @ + 1]
  /\ ctl' = Append(ctl, [k |-> "func"])
  /\ mark' = "func"
  /\ UNCHANGED <<funcs, nosym>>

\* decl: the end of a prototype or of a function body
SymFuncLeave ==
  /\ ctl # <<>>
  /\ CtlTop.k = "func"
  /\ stacks' = [stacks EXCEPT !.local_scope = @ - 1]
  /\ ctl' = Pop(ctl)
  /\ mark' = "endfunc"
  /\ UNCHANGED <<funcs, nosym>>

\* statement: '{'
SymBlockEnter ==
  /\ ctl # <<>>
  /\ stacks' = [stacks EXCEPT !.local_scope = @ + 1]
  /\ ctl' = Append(ctl, [k |-> "block", saved |-> stacks.local_stack.top,
                         hash_table |-> stacks.local_stack.hash_table,
                         n |-> Len(funcs), live |-> Live(stacks.heap),
                         found |-> Lookups(stacks)])
  /\ mark' = "enter"
  /\ UNCHANGED <<funcs, nosym>>

statement_block_end(tb, saved) ==
  LET r == sym_pop(tb.heap, tb.local_stack, saved)
  IN [tb EXCEPT !.heap = r.heap, !.local_stack = r.st,
                !.fault = @ \/ r.fault, !.local_scope = @ - 1]

\* statement: '}'
SymBlockLeave ==
  /\ ctl # <<>>
  /\ CtlTop.k = "block"
  /\ stacks' = statement_block_end(stacks, CtlTop.saved)
  /\ ctl' = Pop(ctl)
  /\ funcs' = SubSeq(funcs, 1, CtlTop.n)
  /\ mark' = IF Len(funcs) > CtlTop.n THEN "pop" ELSE "leave"
  /\ UNCHANGED nosym

SymInit == GenInit(tcc_new, <<>>) /\ drv = <<>> /\ sec = <<>> /\ pe = <<>>
             /\ stacks = NoSyms

SymNext ==
  \/ Len(stacks.heap) < MaxSyms /\ SymPush
  \/ Len(ctl) < MaxScopes /\ SymFuncEnter
  \/ SymFuncLeave
  \/ Len(ctl) < MaxScopes /\ SymBlockEnter
  \/ SymBlockLeave

SpecSym == SymInit /\ [][SymNext]_vars

\* the last symbol of funcs named name on the local (or global) stack
LastPushed(name, local) ==
  LET all == {i \in 1..Len(funcs) :
                funcs[i].name = name /\ funcs[i].local = local}
  IN IF all = {} THEN 0
     ELSE funcs[CHOOSE i \in all : \A j \in all : j <= i].p

Expected(name) ==
  IF LastPushed(name, TRUE) # 0 THEN LastPushed(name, TRUE)
  ELSE LastPushed(name, FALSE)

\* C18: after any sequence of sym_push2 calls and scope-exit sym_pop calls,
\* sym_find2(name) is the most recently pushed symbol not yet popped that
\* has this name on the local stack, else the most recent one on the
\* global stack, else NULL, also under bucket collisions and shadowing
C18_FindMostRecent ==
  /\ ~stacks.fault
  /\ \A name \in Names : sym_find2(stacks, name) = Expected(name)

\* "main" is pushed on the global stack and again on the local stack,
\* then "majO", of the same bucket, on top of it
C18_Witness ==
  /\ Len(funcs) = 3
  /\ funcs[1].name = NameMain /\ ~funcs[1].local
  /\ funcs[2].name = NameMain /\ funcs[2].local
  /\ funcs[3].name = NameMajO /\ funcs[3].local
  /\ str_hash(NameMajO) = str_hash(NameMain)
  /\ sym_find2(stacks, NameMain) = 2

\* C19: the end of a block leaves the top of the local stack and the head
\* of every bucket as they were when the block was entered, frees the
\* symbols pushed since and no other, and every lookup gives what it gave
\* at the entry
C19_ScopeRoundTrip ==
  [][SymBlockLeave =>
       /\ ~stacks'.fault
       /\ stacks'.local_stack.top = CtlTop.saved
       /\ stacks'.local_stack.hash_table = CtlTop.hash_table
       /\ stacks'.global_stack = stacks.global_stack
       /\ Live(stacks'.heap) = CtlTop.live
       /\ Lookups(stacks') = CtlTop.found]_vars

\* a block has ended whose symbols were popped, and the parameter "main"
\* pushed before it is the top of the local stack again
C19_Witness ==
  /\ mark = "pop"
  /\ Len(stacks.heap) = 1
  /\ stacks.heap[1].name = NameMain
  /\ stacks.local_stack.top = 1
  /\ stacks.local_stack.hash_table[str_hash(NameMain)] = 1

(***************************************************************************)
(* pe_output_file (pe.c).  pe holds the sizes of .data, .rdata (-1 when    *)
(* the section was never created) and .bss, and, once the function has     *)
(* run, what it put in the header and where it wrote each section.  The    *)
(* size of .text is the length of text.                                    *)
(***************************************************************************)
PE_HEADER_SIZE == 512
SECTION_ALIGNMENT == 4096
FILE_ALIGNMENT == 512

\* on uint32_t; the sizes of the model stay far below 2^32
align_up(value, alignment) ==
  BitAnd(value + alignment - 1, BitNot(alignment - 1))

\* s->X_section && s->X_section->data_size > 0
HasData(size) == size > 0

pe_count_sections(t, d, r, b) ==
  (IF HasData(t) THEN 1 ELSE 0) + (IF HasData(d) THEN 1 ELSE 0)
    + (IF HasData(r) THEN 1 ELSE 0) + (IF HasData(b) THEN 1 ELSE 0)

\* push rbp; mov rbp, rsp; xor eax, eax; pop rbp; ret
pe_minimal_main(s) ==
  g(g(g(g(g(g(g(g(s, 85), 72), 137), 229), 49), 192), 93), 195)

pe_entry_point(tb) ==
  IF sym_find2(tb, NameMain) # 0
  THEN SECTION_ALIGNMENT + tb.heap[sym_find2(tb, NameMain)].c
  ELSE SECTION_ALIGNMENT

pe_size_of_image(t, d, r, b) ==
  SECTION_ALIGNMENT
    + (IF HasData(t) THEN align_up(t, SECTION_ALIGNMENT) ELSE 0)
    + (IF HasData(d) THEN align_up(d, SECTION_ALIGNMENT) ELSE 0)
    + (IF HasData(r) THEN align_up(r, SECTION_ALIGNMENT) ELSE 0)
    + (IF HasData(b) THEN align_up(b, SECTION_ALIGNMENT) ELSE 0)

\* one of the three blocks that fill a section header
pe_section_header(a, name, size) ==
  IF HasData(size)
  THEN [headers |-> Append(a.headers,
                           [name |-> name, VirtualSize |-> size,
                            VirtualAddress |-> a.virtual_addr,
                            SizeOfRawData |-> align_up(size, FILE_ALIGNMENT),
                            PointerToRawData |-> a.file_offset]),
        file_offset |-> a.file_offset + align_up(size, FILE_ALIGNMENT),
        virtual_addr |-> a.virtual_addr + align_up(size, SECTION_ALIGNMENT)]
  ELSE a

pe_section_headers(t, d, r) ==
  pe_section_header(
    pe_section_header(
      pe_section_header([headers |-> <<>>, file_offset |-> PE_HEADER_SIZE,
                         virtual_addr |-> SECTION_ALIGNMENT], ".text", t),
      ".data", d),
    ".rdata", r).headers

\* one of the three blocks that write a section and its padding; pos is
\* the position of the file
pe_write_section(w, name, size) ==
  IF HasData(size)
  THEN [written |-> Append(w.written, [name |-> name, pos |-> w.pos]),
        pos |-> w.pos + size + (align_up(size, FILE_ALIGNMENT) - size)]
  ELSE w

pe_write_sections(t, d, r) ==
  pe_write_section(
    pe_write_section(
      pe_write_section([written |-> <<>>, pos |-> PE_HEADER_SIZE], ".text", t),
      ".data", d),
    ".rdata", r).written

\* the header counts the sections found before the minimal main is added
pe_num_sections(t, d, r, b) ==
  IF pe_count_sections(t, d, r, b) = 0 THEN 1
  ELSE pe_count_sections(t, d, r, b)

\* the compiler state pe_output_file leaves
pe_output_state(s, p, ok) ==
  LET s1 == IF pe_count_sections(Len(s.text), p.data, p.rdata, p.bss) = 0
            THEN pe_minimal_main(s) ELSE s
  IN IF ok THEN s1 ELSE tcc_error(s1)

\* what it returns, puts in the header and writes; t is the size of .text
\* once the minimal main is there
pe_output_file(t, tb, p, ok, n) ==
  [ret |-> IF ok THEN 0 ELSE -1,
   NumberOfSections |-> n,
   AddressOfEntryPoint |-> pe_entry_point(tb),
   SizeOfImage |-> pe_size_of_image(t, p.data, p.rdata, p.bss),
   headers |-> pe_section_headers(t, p.data, p.rdata),
   written |-> IF ok THEN pe_write_sections(t, p.data, p.rdata) ELSE <<>>]

\* ok: fopen gives a file
PeOutputFile ==
  \E ok \in BOOLEAN :
    /\ pe.out = <<>>
    /\ CommitGen(pe_output_state(S, pe, ok))
    /\ pe' = [pe EXCEPT !.out =
                pe_output_file(Len(pe_output_state(S, pe, ok).text), stacks,
                               pe, ok,
                               pe_num_sections(Len(text), pe.data, pe.rdata,
                                               pe.bss))]
    /\ mark' = "output"
    /\ UNCHANGED <<ast, ctl, sites, callsites, funcs, drv, stacks, sec>>

(***************************************************************************)
(* SpecPe: pe_output_file on sections of any of the sizes below.           *)
(***************************************************************************)
TextSizes == {0, 8, 513, 4097}

DataSizes == {0, 8, 520}

RdataSizes == {-1, 5, 4097}

BssSizes == {0, 16}

\* n bytes of code
Code(n) == [i \in 1..n |-> 144]

PeInit ==
  /\ \E n \in TextSizes :
       GenInit([tcc_new EXCEPT !.text = Code(n), !.ind = n], <<>>)
  /\ pe \in [data : DataSizes, rdata : RdataSizes, bss : BssSizes,
             out : {<<>>}]
  /\ drv = <<>>
  /\ stacks = NoSyms
  /\ sec = <<>>

PeNext == PeOutputFile

SpecPe == PeInit /\ [][PeNext]_vars

\* the non-empty sections among .text, .data and .rdata, in this order
RECURSIVE NonEmpty(_)
NonEmpty(l) ==
  IF l = <<>> THEN <<>>
  ELSE IF Head(l).size > 0 THEN <<Head(l)>> \o NonEmpty(Tail(l))
  ELSE NonEmpty(Tail(l))

Emitted ==
  NonEmpty(<<[name |-> ".text", size |-> Len(text)],
             [name |-> ".data", size |-> pe.data],
             [name |-> ".rdata", size |-> pe.rdata]>>)

\* size rounded up to a multiple of a
Padded(size, a) == ((size + a - 1) \div a) * a

\* the padded sizes of the first k sections of l
RECURSIVE PaddedBefore(_, _, _)
PaddedBefore(l, k, a) ==
  IF k = 0 THEN 0 ELSE Padded(l[k].size, a) + PaddedBefore(l, k - 1, a)

MaxDecls == 3

\* decl: the symbol of a function, at the '(' of its declarator
decl_function_sym(tb, name, textsize) ==
  sym_push2(tb, name, BitOr(VT_INT, VT_FUNC), VT_CONST, textsize)

\* decl: the parameter list, with one parameter named pname or none named
decl_params(tb, pname) ==
  IF pname = NoName THEN [tb EXCEPT !.local_scope = @ + 1]
  ELSE sym_push2([tb EXCEPT !.local_scope = @ + 1], pname, VT_INT, VT_LOCAL,
                 16)

\* int name(int pname);
decl_prototype(tb, name, pname, textsize) ==
  [decl_params(decl_function_sym(tb, name, textsize), pname)
     EXCEPT !.local_scope = @ - 1]

\* statement: the block `{ int lname; return 0; }` or `{ return 0; }`
statement_block(tb, lname, c) ==
  IF lname = NoName
  THEN statement_block_end([tb EXCEPT !.local_scope = @ + 1],
                           tb.local_stack.top)
  ELSE statement_block_end(
         sym_push2([tb EXCEPT !.local_scope = @ + 1], lname, VT_INT,
                   VT_LOCAL, c),
         tb.local_stack.top)

\* int name(int pname) { ... }: the symbol table after it
decl_definition(tb, name, pname, lname, textsize) ==
  LET body == statement_block(
                decl_params(decl_function_sym(tb, name, textsize), pname),
                lname, -8)
  IN [body EXCEPT !.local_scope = @ - 1]

\* and the code generated for it
decl_definition_code(s, lname) ==
  IF lname = NoName
  THEN statement_return(expr_primary_num(gfunc_prolog(s), 0), TRUE)
  ELSE statement_return(
         expr_primary_num(decl_local(gfunc_prolog(s), VT_INT), 0), TRUE)

\* int name; at file scope, with .data holding datasize bytes
decl_global(tb, name, datasize) ==
  [sym_push2(tb, name, VT_INT, VT_SYM, 0)
     EXCEPT !.heap[Len(tb.heap) + 1].c = datasize]

Declared(kind, name, c) == [kind |-> kind, name |-> name, c |-> c]

\* the parameter and the local a function declaration names
Inner(pname, lname) ==
  (IF pname = NoName THEN <<>> ELSE <<Declared("param", pname, 16)>>)
    \o (IF lname = NoName THEN <<>> ELSE <<Declared("local", lname, -8)>>)

TopLevel == {i \in 1..Len(funcs) : funcs[i].kind \in {"proto", "def", "var"}}

DefinedAt(name) ==
  {i \in 1..Len(funcs) : funcs[i].kind = "def" /\ funcs[i].name = name}

UnitProto ==
  \E name \in Names, pname \in Names \cup {NoName} :
    /\ pe.out = <<>>
    /\ stacks' = decl_prototype(stacks, name, pname, Len(text))
    /\ funcs' = Append(funcs, Declared("proto", name, Len(text)))
                  \o Inner(pname, NoName)
    /\ mark' = "decl"
    /\ UNCHANGED <<vstack, text, ind, loc, nb_errors, nb_warnings, labels,
                   ast, ctl, sites, callsites, drv, sec, pe>>

UnitDefine ==
  \E name \in Names, pname \in Names \cup {NoName},
     lname \in {NameMain, NoName} :
    /\ pe.out = <<>>
    /\ DefinedAt(name) = {}
    /\ stacks' = decl_definition(stacks, name, pname, lname, Len(text))
    /\ CommitGen(decl_definition_code(S, lname))
    /\ funcs' = Append(funcs, Declared("def", name, Len(text)))
                  \o Inner(pname, lname)
    /\ mark' = "decl"
    /\ UNCHANGED <<ast, ctl, sites, callsites, drv, sec, pe>>

UnitGlobal ==
  \E name \in Names :
    /\ pe.out = <<>>
    /\ stacks' = decl_global(stacks, name, pe.data)
    /\ pe' = [pe EXCEPT !.data = @ + 8]
    /\ funcs' = Append(funcs, Declared("var", name, pe.data))
    /\ mark' = "decl"
    /\ UNCHANGED <<vstack, text, ind, loc, nb_errors, nb_warnings, labels,
                   ast, ctl, sites, callsites, drv, sec>>

UnitInit ==
  /\ GenInit(tcc_new, <<>>)
  /\ pe = [data |-> 0, rdata |-> -1, bss |-> 0, out |-> <<>>]
  /\ drv = <<>>
  /\ stacks = NoSyms
  /\ sec = <<>>

UnitNext ==
  \/ Cardinality(TopLevel) < MaxDecls /\ UnitProto
  \/ Cardinality(TopLevel) < MaxDecls /\ UnitDefine
  \/ Cardinality(TopLevel) < MaxDecls /\ UnitGlobal
  \/ PeOutputFile

SpecUnit == UnitInit /\ [][UnitNext]_vars

\* C16: the AddressOfEntryPoint of the image written is 0x1000 plus the
\* offset in .text of the first byte of the definition of main when the
\* unit defines main, whatever else named main it declares before or
\* after, and 0x1000 when the unit declares no symbol named main
C16_EntryPoint ==
  (pe.out # <<>> /\ pe.out.ret = 0) =>
    /\ \A i \in DefinedAt(NameMain) :
         pe.out.AddressOfEntryPoint = 4096 + funcs[i].c
    /\ (\A i \in 1..Len(funcs) : funcs[i].name # NameMain) =>
         pe.out.AddressOfEntryPoint = 4096

(***************************************************************************)
(* Sections (section.c).  data is the buffer of data_alloc bytes; a byte   *)
(* nobody has written is Unwritten, and no step of the model reads one.    *)
(* call is the last call on the section: its arguments, what it returned   *)
(* (an offset; for section_ptr_add the offset of the pointer returned) and *)
(* how many calls were made.                                               *)
(***************************************************************************)
MaxCalls == 3
MaxDoublings == 5

Unwritten == -1

NoCall == [op |-> "new_section", bytes |-> <<>>, size |-> 0, ret |-> 0, n |-> 0]

new_section ==
  [data |-> [i \in 1..256 |-> Unwritten], data_size |-> 0, data_alloc |-> 256,
   call |-> NoCall]

\* the loop of section_realloc
RECURSIVE section_realloc_alloc(_, _)
section_realloc_alloc(new_alloc, new_size) ==
  IF new_alloc < new_size THEN section_realloc_alloc(new_alloc * 2, new_size)
  ELSE new_alloc

\* tcc_realloc: the bytes held are kept, the rest is not written
tcc_realloc(data, new_alloc) ==
  [i \in 1..new_alloc |-> IF i <= Len(data) THEN data[i] ELSE Unwritten]

\* the buffer grown to the size asked for and no further
section_realloc_exact(sc, new_size) ==
  IF new_size > sc.data_alloc
  THEN [sc EXCEPT !.data = tcc_realloc(sc.data, new_size),
                  !.data_alloc = new_size]
  ELSE sc

section_realloc(sc, new_size) ==
  IF new_size > sc.data_alloc
  THEN [sc EXCEPT
          !.data = tcc_realloc(sc.data,
                               section_realloc_alloc(sc.data_alloc, new_size)),
          !.data_alloc = section_realloc_alloc(sc.data_alloc, new_size)]
  ELSE sc

\* memcpy(dst + at, src, size)
memcpy(dst, at, src, size) ==
  [i \in 1..Len(dst) |->
     IF i > at /\ i <= at + size THEN src[i - at] ELSE dst[i]]

section_add(sc, bytes, size) ==
  [section_realloc(sc, sc.data_size + size) EXCEPT
     !.data = memcpy(@, sc.data_size, bytes, size),
     !.data_size = @ + size,
     !.call = [op |-> "section_add", bytes |-> bytes, size |-> size,
               ret |-> sc.data_size, n |-> sc.call.n + 1]]

section_ptr_add(sc, size) ==
  [section_realloc(sc, sc.data_size + size) EXCEPT
     !.data_size = @ + size,
     !.call = [op |-> "section_ptr_add", bytes |-> <<>>, size |-> size,
               ret |-> sc.data_size, n |-> sc.call.n + 1]]

\* the strings and the sizes the calls are made with
AddInputs == {<<>>, <<104, 0>>, [i \in 1..257 |-> 65], [i \in 1..600 |-> 66]}

PtrSizes == {0, 1, 8, 600}

SectionAdd ==
  \E bytes \in AddInputs :
    /\ sec' = section_add(sec, bytes, Len(bytes))
    /\ mark' = "section_add"
    /\ UNCHANGED <<vstack, text, ind, loc, nb_errors, nb_warnings, labels,
                   ast, ctl, sites, callsites, funcs, drv, stacks, pe>>

SectionPtrAdd ==
  \E size \in PtrSizes :
    /\ sec' = section_ptr_add(sec, size)
    /\ mark' = "section_ptr_add"
    /\ UNCHANGED <<vstack, text, ind, loc, nb_errors, nb_warnings, labels,
                   ast, ctl, sites, callsites, funcs, drv, stacks, pe>>

SectionInit ==
  /\ GenInit(tcc_new, <<>>)
  /\ sec = new_section
  /\ drv = <<>>
  /\ stacks = <<>>
  /\ pe = <<>>

SectionNext ==
  \/ sec.call.n < MaxCalls /\ SectionAdd
  \/ sec.call.n < MaxCalls /\ SectionPtrAdd

SpecSection == SectionInit /\ [][SectionNext]_vars

\* 256 times a power of two
IsAlloc(a) == \E k \in 0..(MaxDoublings + MaxCalls) : a = 256 * Pow2(k)

\* C20: each section_add and section_ptr_add returns the data_size of
\* before the call, data_size grows by the size asked for, the bytes below
\* the former data_size are unchanged, the bytes given to section_add are
\* at [offset, offset + size), and data_alloc is 256 times a power of two,
\* the size of the buffer, and at least data_size
C20_SectionGrowth ==
  [][/\ sec'.call.ret = sec.data_size
     /\ sec'.data_size = sec.data_size + sec'.call.size
     /\ \A i \in 1..sec.data_size : sec'.data[i] = sec.data[i]
     /\ sec'.call.op = "section_add" =>
          \A i \in 1..sec'.call.size :
            sec'.data[sec.data_size + i] = sec'.call.bytes[i]
     /\ IsAlloc(sec'.data_alloc)
     /\ Len(sec'.data) = sec'.data_alloc
     /\ sec'.data_size <= sec'.data_alloc]_vars

\* a string was added that made the buffer double twice in one call, above
\* bytes a section_ptr_add had reserved
C20_Witness ==
  /\ sec.call.op = "section_add"
  /\ sec.call.size = 600
  /\ sec.call.ret = 8
  /\ sec.data_alloc = 1024
  /\ sec.data[8] = Unwritten
  /\ sec.data[608] = 66

(***************************************************************************)
(* SpecJump: if, while and for in the body of a function, with conditions  *)
(* built from a local, + and the unary *.  The labels of a construct are   *)
(* those its entry of ctl names; a label keeps the offset it was defined   *)
(* at, and until then heads the chain of the jumps that wait for it.       *)
(***************************************************************************)
\* the offset the rel32 slot at p jumps to
Target(code, p) == p + 4 + Read32(code, p)

\* the slot at p belongs to a jz, to a jmp
IsJz(code, p) == Byte(code, p - 2) = 15 /\ Byte(code, p - 1) = 132

IsJmp(code, p) == Byte(code, p - 1) = 233

Fresh == [r |-> 0, c |-> -1]

At(pos) == [r |-> 1, c |-> pos]

Slot(p) == [r |-> 0, c |-> p]

\* exactly one jump waits for label l
Waits(l) == labels[l].r = 0 /\ labels[l].c >= 0 /\ Read32(text, labels[l].c) = -1

NewTop == ctl'[Len(ctl')]

JumpLeaf == AtExpr /\ RoomForLeaf(MaxStmtLeaves, 2 * MaxStmtLeaves)

JumpOp == AtExpr /\ RoomForOp(2 * MaxStmtLeaves)

JumpNext ==
  \/ JumpLeaf /\ ExprIdent({LocalA})
  \/ JumpOp /\ ExprBinary({"+"})
  \/ JumpOp /\ ExprDeref
  \/ StmtSimple
  \/ StmtIf
  \/ StmtIfEnd
  \/ StmtElse
  \/ StmtElseEnd
  \/ StmtWhile
  \/ StmtWhileCond
  \/ StmtWhileEnd
  \/ StmtFor
  \/ StmtForInit
  \/ StmtForCond
  \/ StmtForUpdate
  \/ StmtForEnd

SpecJump == StmtInit /\ [][JumpNext]_vars

\* if (e) S1 else S2: the jz after e waits for l1, which is defined at the
\* first byte of S2, behind the jmp that waits for l2; l2 is defined after
\* S2.  Without else l1 is defined after S1.
IfTargets ==
  /\ StmtIf => /\ IsJz(text', ind' - 4)
               /\ labels'[NewTop.l1] = Slot(ind' - 4)
  /\ StmtIfEnd => /\ Waits(CtlTop.l1)
                  /\ IsJz(text, labels[CtlTop.l1].c)
                  /\ ind' = ind
                  /\ Target(text', labels[CtlTop.l1].c) = ind'
  /\ StmtElse => /\ Waits(CtlTop.l1)
                 /\ IsJz(text, labels[CtlTop.l1].c)
                 /\ ind' = ind + 5
                 /\ IsJmp(text', ind + 1)
                 /\ labels'[NewTop.l2] = Slot(ind + 1)
                 /\ Target(text', labels[CtlTop.l1].c) = ind'
  /\ StmtElseEnd => /\ Waits(CtlTop.l2)
                    /\ IsJmp(text, labels[CtlTop.l2].c)
                    /\ ind' = ind
                    /\ Target(text', labels[CtlTop.l2].c) = ind'

\* while (e) S: l1 is defined where the evaluation of e starts, the jz
\* after e waits for l2, the jmp after S goes to l1 and l2 is defined
\* behind that jmp
WhileTargets ==
  /\ StmtWhile => /\ ind' = ind
                  /\ labels'[NewTop.l1] = At(ind')
                  /\ labels'[NewTop.l2] = Fresh
  /\ StmtWhileCond => /\ IsJz(text', ind' - 4)
                      /\ labels'[CtlTop.l2] = Slot(ind' - 4)
  /\ StmtWhileEnd => /\ Waits(CtlTop.l2)
                     /\ IsJz(text, labels[CtlTop.l2].c)
                     /\ ind' = ind + 5
                     /\ IsJmp(text', ind + 1)
                     /\ labels[CtlTop.l1].r = 1
                     /\ Target(text', ind + 1) = labels[CtlTop.l1].c
                     /\ Target(text', labels[CtlTop.l2].c) = ind'

\* for (init; cond; upd) S: l_cond (l1) is defined behind init, the jz
\* after cond waits for l_end (l2) and the jmp behind it for l_body (l4),
\* l_update (l3) is defined behind that jmp, the jmp after upd goes to
\* l_cond, l_body is defined behind it, the jmp after S goes to l_update
\* and l_end is defined behind it
ForTargets ==
  /\ StmtFor => \A l \in {NewTop.l1, NewTop.l2, NewTop.l3, NewTop.l4} :
                  labels'[l] = Fresh
  /\ StmtForInit => labels'[CtlTop.l1] = At(ind')
  /\ StmtForCond =>
       /\ IsJmp(text', ind' - 4)
       /\ labels'[CtlTop.l4] = Slot(ind' - 4)
       /\ labels'[CtlTop.l3] = At(ind')
       /\ IF Len(ast) = 1
          THEN IsJz(text', ind' - 9) /\ labels'[CtlTop.l2] = Slot(ind' - 9)
          ELSE labels'[CtlTop.l2] = Fresh
  /\ StmtForUpdate => /\ IsJmp(text', ind' - 4)
                      /\ labels[CtlTop.l1].r = 1
                      /\ Target(text', ind' - 4) = labels[CtlTop.l1].c
                      /\ Waits(CtlTop.l4)
                      /\ IsJmp(text, labels[CtlTop.l4].c)
                      /\ Target(text', labels[CtlTop.l4].c) = ind'
                      /\ labels'[CtlTop.l4] = At(ind')
  /\ StmtForEnd => /\ ind' = ind + 5
                   /\ IsJmp(text', ind + 1)
                   /\ labels[CtlTop.l3].r = 1
                   /\ Target(text', ind + 1) = labels[CtlTop.l3].c
                   /\ \/ labels[CtlTop.l2] = Fresh
                      \/ /\ Waits(CtlTop.l2)
                         /\ IsJz(text, labels[CtlTop.l2].c)
                         /\ Target(text', labels[CtlTop.l2].c) = ind'

\* between the steps of a construct its labels and the slots of its jumps
\* stay as they are: a step changes only labels of the innermost open
\* construct, and bytes already emitted only inside a slot that waits for
\* one of them
TopLabels == {CtlTop.l1, CtlTop.l2, CtlTop.l3, CtlTop.l4}

LabelsKept ==
  /\ \A l \in 1..Len(labels) : labels'[l] # labels[l] => l \in TopLabels
  /\ \A i \in 1..Len(text) :
       text'[i] # text[i] =>
         \E l \in TopLabels \cap (1..Len(labels)) :
           labels[l].r = 0 /\ i - 1 \in labels[l].c..(labels[l].c + 3)

JumpTargets == IfTargets /\ WhileTargets /\ ForTargets /\ LabelsKept

\* the register gtst tests holds the value of the condition: gtst loads
\* the top entry with gv unless the low byte of its r names a register,
\* and then the entry must be that register and nothing else
TestsValue ==
  vstack # <<>> /\ (BitAnd(Top(S).r, 255) < NB_REGS => Top(S).r < NB_REGS)

JumpTests ==
  /\ StmtIf => TestsValue
  /\ StmtWhileCond => TestsValue
  /\ (StmtForCond /\ Len(ast) = 1) => TestsValue

\* C22: the jumps of if/else, while and for go where the claim says: the
\* conditional jump of an if to the first byte of S2 (after S1 without
\* else), the jump after S1 to the first byte after S2, the conditional
\* jump of a while behind its back-jump and the back-jump to the
\* evaluation of e, the jumps of a for in the order init, cond, S, upd,
\* cond; and each conditional jump is taken exactly when the condition
\* evaluates to zero
C22_JumpTargets == [][JumpTargets /\ JumpTests]_vars

C22_TargetsOnly == [][JumpTargets]_vars

(***************************************************************************)
(* gv and the entries below the top, in SpecExpr.                          *)
(***************************************************************************)
\* gv(rc) has to load the top entry: it is not in a register of the class
GvLoads(s, rc) ==
  /\ vtop(s) >= 0
  /\ ~(/\ BitAnd(Top(s).r, 255) < NB_REGS
       /\ gv_match(rc, BitAnd(Top(s).r, 255)))

\* the entry holds its value, or the address of its value, in register R
Resides(e, R) == e.r = R \/ e.r = BitOr(R, VT_LVAL)

\* the entries below the top that reside in R
Residents(st, R) == {i \in 1..(Len(st) - 1) : Resides(st[i], R)}

\* the number of store instructions among the bytes from..to
StoresIn(code, from, to) ==
  Cardinality({n \in 1..Len(InsnStarts(code, from, to)) :
                 Access(code, InsnStarts(code, from, to)[n]).kind = "store"})

GvSpills(rc) ==
  IF ~GvLoads(S, rc)
  THEN text' = text /\ vstack' = vstack /\ loc' = loc
  ELSE LET R == gv_pick(rc)
           sp == Residents(vstack, R)
       IN /\ loc' = loc - 8 * Cardinality(sp)
          /\ StoresIn(text', ind, ind') = Cardinality(sp)
          /\ \A i \in 1..(Len(vstack) - 1) :
               IF i \in sp
               THEN /\ vstack'[i].r = BitOr(VT_LOCAL, VT_LVAL)
                    /\ vstack'[i].t = vstack[i].t
                    /\ vstack'[i].c \in loc'..(loc - 8)
                    /\ \A j \in sp : j # i => vstack'[j].c # vstack'[i].c
               ELSE vstack'[i] = vstack[i]

\* C23: a gv that has to load the top entry into R stores every other
\* entry residing in R to a fresh frame slot of its own (loc goes down by
\* 8 per entry) and rewrites it to LOCAL|LVAL at that slot with its type
\* kept; every other entry (constant, local, global symbol, other
\* register) stays as it is and no store is emitted for it; a gv whose top
\* entry is in a register of the class emits nothing and changes nothing
C23_GvSpills == [][(GvInt /\ vstack # <<>>) => GvSpills(RC_INT)]_vars

(***************************************************************************)
(* SpecCast: (T)a, and casts of casts, for a local a of every type that    *)
(* parse_type and parse_pointer produce and every such T.                  *)
(***************************************************************************)
VT_DOUBLE == 9
VT_LDOUBLE == 10
VT_BOOL == 11

MaxCasts == 3

\* the base types parse_type returns for a declaration specifier list,
\* and VT_PTR from parse_pointer, each with and without unsigned
CastBases == {VT_INT, VT_BYTE, VT_SHORT, VT_LLONG, VT_PTR, VT_FLOAT, VT_DOUBLE}

CastTypes == {b + u : b \in CastBases, u \in {0, VT_UNSIGNED}}

IsIntType(t) ==
  BitAnd(t, VT_BTYPE) \in {VT_INT, VT_BYTE, VT_SHORT, VT_LLONG, VT_BOOL, VT_PTR}

IsFloatType(t) == BitAnd(t, VT_BTYPE) \in {VT_FLOAT, VT_DOUBLE, VT_LDOUBLE}

\* the operand of the cast: the local a of type t
CastOperand(t) ==
  expr_primary_ident(decl_local(gfunc_prolog(tcc_new), t),
                     LocalSym("a", t, -8))

\* ( T ) e
CastTo(t) ==
  /\ nb_errors = 0
  /\ NodesOf(ast) <= MaxCasts
  /\ Commit(expr_unary_cast(S, t))
  /\ ast' = <<Un("cast", IF ast = <<>> THEN Var(LocalA) ELSE AstTop)>>
  /\ mark' = "cast"
  /\ UNCHANGED <<ctl, sites, callsites, funcs>>

CastInit == \E t \in CastTypes : InitFrom(CastOperand(t))

CastNext == \E t \in CastTypes : CastTo(t)

SpecCast == CastInit /\ [][CastNext]_vars

\* a float converter was called: each of them only counts a warning
Converted == nb_warnings' = nb_warnings + 1

\* C24: a cast between two integer base types sets the type word of the
\* top entry to the target type and calls no float converter; a float
\* converter is called only when exactly one of the two types is a
\* floating type
C24_IntegerCasts ==
  [][\A t \in CastTypes :
       CastTo(t) =>
         /\ (IsIntType(Top(S).t) /\ IsIntType(t))
              => (vstack'[Len(vstack')].t = t /\ ~Converted)
         /\ Converted => (IsFloatType(Top(S).t) # IsFloatType(t))]_vars

(***************************************************************************)
(* SpecConst: load(r, sv) for a constant whose c.i needs all 64 bits.  A   *)
(* 64-bit value is kept in three limbs, hi * 2^32 + l1 * 2^16 + l0 with    *)
(* hi a signed 32-bit number and l1, l0 in 0..65535, and compared limb by  *)
(* limb.                                                                   *)
(***************************************************************************)
W(hi, l1, l0) == [hi |-> hi, l1 |-> l1, l0 |-> l0]

WLess(a, b) ==
  \/ a.hi < b.hi
  \/ a.hi = b.hi /\ a.l1 < b.l1
  \/ a.hi = b.hi /\ a.l1 = b.l1 /\ a.l0 < b.l0

WLeq(a, b) == a = b \/ WLess(a, b)

WZero == W(0, 0, 0)

\* -0x80000000LL and 0x7fffffffLL
Int32Min == W(-1, 32768, 0)

Int32Max == W(0, 32767, 65535)

\* gen_le32 of (uint32_t)v
gen_le32_low(s, v) ==
  g(g(g(g(s, v.l0 % 256), v.l0 \div 256), v.l1 % 256), v.l1 \div 256)

\* a gen_le64 whose second word is zero
gen_le64_zext(s, v) == gen_le32(gen_le32_low(s, v), 0)

\* gen_le64 of a value in limbs: (uint32_t)v, then (uint32_t)(v >> 32)
gen_le64_wide(s, v) == gen_le32(gen_le32_low(s, v), v.hi)

\* load, with sv.c in limbs when sv is a constant
load_const(s, r, sv) ==
  IF BitAnd(sv.r, 255) = VT_CONST THEN
    IF sv.c = WZero THEN
      gen_modrm(g(gen_rex(s, 1, r, 0, r), 49), 3, r, r)
    ELSE IF WLeq(Int32Min, sv.c) /\ WLeq(sv.c, Int32Max) THEN
      gen_le32_low(gen_modrm(g(gen_rex(s, 1, 0, 0, r), 199), 3, 0, r), sv.c)
    ELSE
      gen_le64_wide(g(gen_rex(s, 1, 0, 0, r), 184 + (r % 8)), sv.c)
  ELSE load(s, r, sv)

\* the low words and the high words the constants are made of
LowWords == {W(0, 0, 0), W(0, 0, 1), W(0, 32767, 65535), W(0, 32768, 0),
             W(0, 65535, 65535)}

HighWords == {0, 1, 2147483647, -1, -2147483647 - 1}

Consts64 == {W(h, lw.l1, lw.l0) : h \in HighWords, lw \in LowWords}

\* load(r, vtop) with the constant on the value stack
LoadConst ==
  \E r \in 0..(NB_REGS - 1) :
    /\ mark = "init"
    /\ Commit(load_const(S, r, Top(S)))
    /\ ctl' = <<[k |-> "load", r |-> r, c |-> Top(S).c]>>
    /\ mark' = "load"
    /\ UNCHANGED <<ast, sites, callsites, funcs>>

ConstInit == \E c \in Consts64 : InitFrom(vset(tcc_new, VT_INT, VT_CONST, c))

ConstNext == LoadConst

SpecConst == ConstInit /\ [][ConstNext]_vars

\* the 16-bit word at offset p
Read16(code, p) == Byte(code, p) + 256 * Byte(code, p + 1)

\* what the processor does with the instruction at pc, for the three
\* forms: the register written, the value it gets and the length
ExecMovImm(code, pc) ==
  LET i == Decode(code, pc)
  IN CASE i.w /\ i.opc = 49 /\ i.mod = 3 /\ i.reg = i.rm ->
            [form |-> "xor", r |-> i.rm, v |-> WZero, len |-> i.next - pc]
       [] i.w /\ i.opc = 199 /\ i.mod = 3 /\ i.ext = 0 ->
            [form |-> "imm32", r |-> i.rm,
             v |-> W(IF Byte(code, i.next + 3) >= 128 THEN -1 ELSE 0,
                     Read16(code, i.next + 2), Read16(code, i.next)),
             len |-> i.next + 4 - pc]
       [] i.w /\ i.opc \in 184..191 ->
            [form |-> "imm64", r |-> i.opc - 184 + 8 * i.rexb,
             v |-> W(Read32(code, i.imm + 4), Read16(code, i.imm + 2),
                     Read16(code, i.imm)),
             len |-> i.imm + 8 - pc]
       [] OTHER -> [form |-> "none", r |-> -1, v |-> WZero, len |-> 0]

FormOf(c) ==
  IF c = WZero THEN "xor"
  ELSE IF WLeq(Int32Min, c) /\ WLeq(c, Int32Max) THEN "imm32"
  ELSE "imm64"

\* C25: load of a constant c into r emits one instruction: xor r, r when
\* c is 0, REX.W C7 /0 with a 32-bit immediate when c is not 0 and lies
\* in -2^31..2^31 - 1, REX.W B8+r with a 64-bit immediate otherwise; the
\* instruction writes r and leaves exactly c there
C25_LoadConstant ==
  mark = "load" =>
    LET x == ExecMovImm(text, 0)
    IN /\ x.form = FormOf(ctl[1].c)
       /\ x.len = Len(text)
       /\ x.r = ctl[1].r
       /\ x.v = ctl[1].c

\* 2^31 has been loaded into rdx, with the 64-bit immediate
C25_Witness ==
  /\ mark = "load"
  /\ ctl[1].c = W(0, 32768, 0)
  /\ ctl[1].r = 2
  /\ Len(text) = 10

(***************************************************************************)
(* Registers and the entries that live in them, in SpecArith.              *)
(***************************************************************************)
\* the registers the instruction at pc writes
InsnWrites(code, pc) ==
  LET i == Decode(code, pc)
  IN CASE i.opc = 153 -> {REG_RDX}
       [] i.opc = 247 /\ i.ext \in {4, 5, 6, 7} -> {REG_RAX, REG_RDX}
       [] i.opc = 247 /\ i.ext \in {2, 3} /\ i.mod = 3 -> {i.rm}
       [] i.opc \in {99, 139, 141, 256 + 175, 256 + 182, 256 + 183,
                     256 + 190, 256 + 191} -> {i.reg}
       [] i.opc \in {1, 9, 33, 41, 49, 136, 137, 199, 211} /\ i.mod = 3
            -> {i.rm}
       [] i.opc = 131 /\ i.ext # 7 /\ i.mod = 3 -> {i.rm}
       [] i.opc \in {256 + c : c \in 144..159} /\ i.mod = 3 -> {i.rm}
       [] i.opc \in 184..191 -> {i.opc - 184 + 8 * i.rexb}
       [] i.opc \in 88..95 -> {i.opc - 88 + 8 * i.rexb}
       [] i.opc = 232 \/ (i.opc = 255 /\ i.ext = 2) -> Volatile
       [] OTHER -> {}

\* the registers written by the instructions in from..to
WrittenIn(code, from, to) ==
  UNION {InsnWrites(code, InsnStarts(code, from, to)[n]) :
           n \in 1..Len(InsnStarts(code, from, to))}

\* the register an entry resides in, -1 if it resides in none
RegOf(e) == IF e.r < NB_REGS \/ e.r - VT_LVAL \in 0..(NB_REGS - 1)
            THEN BitAnd(e.r, 255) ELSE -1

\* the step leaves the entries below its result alone: one that is still
\* in a register afterwards is in a register the step did not write
NoClobber ==
  \A i \in 1..(Len(vstack') - 1) :
    (i <= Len(vstack) /\ RegOf(vstack'[i]) >= 0)
      => RegOf(vstack'[i]) \notin WrittenIn(text', ind, ind')

\* no two entries reside in the same register
DistinctRegs ==
  \A i, j \in 1..Len(vstack) :
    (i < j /\ RegOf(vstack[i]) >= 0) => RegOf(vstack[i]) # RegOf(vstack[j])

\* C26: no step overwrites a register in which an entry other than the
\* operands it consumes resides, unless it has spilled that entry to the
\* frame first; so no two entries of the value stack name the same
\* register
C26_NoClobber == [][NoClobber /\ DistinctRegs']_vars

(***************************************************************************)
(* The frame of a function, in SpecLocal: the prologue reserves FrameSize  *)
(* bytes below rbp.                                                        *)
(***************************************************************************)
FrameSize == 96

\* the accesses the emitted code makes below rbp
FrameAccesses ==
  {a \in {Access(text, InsnStarts(text, 0, Len(text))[n]) :
            n \in 1..Len(InsnStarts(text, 0, Len(text)))} :
     a.kind \in {"load", "store"} /\ a.mod \in {1, 2} /\ a.rm = REG_RBP
       /\ a.disp < 0}

\* C27: every frame slot the emitted code addresses for a local, an array
\* or a spill lies in the bytes the prologue reserved: its offset c has
\* -0x60 <= c and c + size <= 0
C27_SlotsInFrame ==
  \A a \in FrameAccesses : 0 - FrameSize <= a.disp /\ a.disp + a.width <= 0

(***************************************************************************)
(* The scope of parameters and locals, in SpecUnit.                        *)
(***************************************************************************)
\* the symbol a lookup of name yields is none or a global one
FindsGlobal(tb, name) ==
  sym_find2(tb, name) # 0 => tb.heap[sym_find2(tb, name)].r # VT_LOCAL

\* C28: once a function definition or a prototype has been parsed,
\* local_scope is 0 and the local symbol stack is as it was before the
\* parameter list; a lookup made for a later declaration finds none of
\* the function's parameters and locals, and yields the global symbol of
\* the name if there is one
C28_ScopeRestored ==
  [][(UnitProto \/ UnitDefine) =>
       /\ stacks'.local_scope = 0
       /\ stacks'.local_stack = stacks.local_stack
       /\ \A name \in Names : FindsGlobal(stacks', name)]_vars

(***************************************************************************)
(* SpecBody: function definitions one after the other, each with a body    *)
(* of empty statements, returns and ifs.  funcs records for each function  *)
(* where its code starts and, once its closing brace is read, where the    *)
(* code ends.                                                              *)
(***************************************************************************)
MaxFuncs == 2

InBody == ctl # <<>>

\* decl on `int f() {`: the prologue, then statement() opens the block
BodyOpen ==
  /\ nb_errors = 0
  /\ ~InBody
  /\ Len(funcs) < MaxFuncs
  /\ Commit(gfunc_prolog(S))
  /\ funcs' = Append(funcs, [params |-> 0, sym |-> FuncSym("f", VT_INT, ind),
                             end |-> -1])
  /\ ctl' = <<Open("block", 0, 0, 0, 0)>>
  /\ mark' = "prolog"
  /\ UNCHANGED <<ast, sites, callsites>>

\* the closing brace of the body: statement() leaves the block and decl
\* returns, neither emits a byte
BodyClose ==
  /\ nb_errors = 0
  /\ Len(ctl) = 1
  /\ ast = <<>>
  /\ Commit(S)
  /\ funcs' = [funcs EXCEPT ![Len(funcs)].end = ind]
  /\ ctl' = <<>>
  /\ mark' = "decl"
  /\ UNCHANGED <<ast, sites, callsites>>

BodyLeaf == InBody /\ AtExpr /\ RoomForLeaf(1, 1)

BodyNext ==
  \/ BodyOpen
  \/ BodyClose
  \/ BodyLeaf /\ ExprNum(ArithNums)
  \/ InBody /\ StmtSimple
  \/ InBody /\ AtStatement /\ StmtReturn
  \/ InBody /\ StmtIf
  \/ InBody /\ StmtIfEnd

SpecBody == InitFrom(tcc_new) /\ [][BodyNext]_vars

\* where control can go from the instruction at pc
Succ(code, pc) ==
  LET i == Decode(code, pc)
  IN CASE i.opc = 195 -> {}
       [] i.opc = 233 -> {Target(code, i.imm)}
       [] i.opc \in {256 + c : c \in 128..143} ->
            {Target(code, i.imm), InsnEnd(code, pc)}
       [] OTHER -> {InsnEnd(code, pc)}

\* the offsets control can reach from those of set without leaving from..to
RECURSIVE Reach(_, _, _, _)
Reach(code, set, from, to) ==
  LET more == set \cup UNION {Succ(code, pc) :
                                pc \in {q \in set : q >= from /\ q < to}}
  IN IF more = set THEN set ELSE Reach(code, more, from, to)

\* the instruction that ends at pc is the ret of mov rsp, rbp; pop rbp; ret
EpilogAt(code, pc) ==
  /\ Byte(code, pc - 5) = 72
  /\ Byte(code, pc - 4) = 137
  /\ Byte(code, pc - 3) = 236
  /\ Byte(code, pc - 2) = 93
  /\ Byte(code, pc - 1) = 195

\* control entering at from stays in from..to and leaves by an epilogue
EndsInEpilog(code, from, to) ==
  \A pc \in Reach(code, {from}, from, to) :
    /\ pc >= from /\ pc < to
    /\ Decode(code, pc).opc = 195 => EpilogAt(code, pc + 1)

\* C29: every control path through the body of a function definition
\* ends in mov rsp, rbp; pop rbp; ret: none reaches the byte after the
\* code of the function, where the next function starts
C29_BodyEndsInEpilog ==
  \A i \in 1..Len(funcs) :
    funcs[i].end >= 0 => EndsInEpilog(text, funcs[i].sym.c, funcs[i].end)

(***************************************************************************)
(* SpecParse: the recursive-descent parser as a machine over a sequence    *)
(* of tokens.  A parser state p has the tokens, the position of the        *)
(* current token (s->tok), the error count and the stack of calls in       *)
(* progress: a frame names the place in its function where the call will   *)
(* resume.  The frame of a loop also records, in at, the position at       *)
(* which its current iteration started.  Past the last token next()        *)
(* yields TOK_EOF and the position stays.  The calls into the code         *)
(* generator read no token and are left out.                               *)
(***************************************************************************)
MaxToks == 3

\* TOK_INT .. TOK_DOUBLE, in the order of the enumeration
Keywords ==
  <<"int", "char", "void", "if", "else", "while", "for", "do", "return",
    "break", "continue", "switch", "case", "default", "sizeof", "struct",
    "union", "enum", "typedef", "static", "extern", "const", "unsigned",
    "signed", "short", "long", "float", "double">>

KeywordsFrom(k) == {Keywords[i] : i \in k..Len(Keywords)}

\* the keywords parse_type takes for a type, and the ones it only skips
TypeKeywords ==
  {"void", "char", "short", "int", "long", "float", "double", "signed",
   "unsigned"}

Qualifiers == {"const", "static", "extern"}

\* the operators of expr_or, expr_and, ..., expr_add, expr_mult
BinaryOps ==
  <<{"||"}, {"&&"}, {"|"}, {"^"}, {"&"}, {"==", "!=", "<", ">", "<=", ">="},
    {"<<", ">>"}, {"+", "-"}, {"*", "/", "%"}>>

AssignOps ==
  {"=", "+=", "-=", "*=", "/=", "%=", "&=", "|=", "^=", "<<=", ">>="}

Frame(pc) == [pc |-> pc, at |-> -1, lvl |-> 0, low |-> 0]

BinFrame(low) == [pc |-> "bin", at |-> -1, lvl |-> Len(BinaryOps), low |-> low]

TokOf(p) == IF p.pos <= Len(p.toks) THEN p.toks[p.pos] ELSE "eof"

next(p) == IF p.pos <= Len(p.toks) THEN [p EXCEPT !.pos = @ + 1] ELSE p

parse_error(p) == [p EXCEPT !.err = @ + 1]

expect(p, tok) == IF TokOf(p) # tok THEN parse_error(p) ELSE p

skip(p, tok) == next(expect(p, tok))

RECURSIVE parse_type_from(_, _)
parse_type_from(p, found) ==
  IF TokOf(p) \in TypeKeywords THEN parse_type_from(next(p), TRUE)
  ELSE IF TokOf(p) \in Qualifiers THEN parse_type_from(next(p), found)
  ELSE [p |-> p, found |-> found]

parse_type(p) == parse_type_from(p, FALSE)

RECURSIVE parse_pointer_const(_)
parse_pointer_const(p) ==
  IF TokOf(p) = "const" THEN parse_pointer_const(next(p)) ELSE p

RECURSIVE parse_pointer(_)
parse_pointer(p) ==
  IF TokOf(p) = "*" THEN parse_pointer(parse_pointer_const(next(p))) ELSE p

PTop(p) == p.stk[Len(p.stk)]

\* continue in the same function at pc
Goto(p, pc) == [p EXCEPT !.stk[Len(p.stk)] = Frame(pc)]

\* the same, inside the current iteration of a loop
SetPc(p, pc) == [p EXCEPT !.stk[Len(p.stk)].pc = pc]

\* an iteration of the loop of the top frame starts here
SetAt(p) == [p EXCEPT !.stk[Len(p.stk)].at = p.pos]

\* call the function that starts at entry and resume at pc
CallP(p, pc, entry) == [SetPc(p, pc) EXCEPT !.stk = Append(@, Frame(entry))]

\* call expr_or .. expr_mult from level low on: the frame of the levels,
\* and expr_unary on top of it
CallBin(p, pc, low) ==
  IF low > Len(BinaryOps) THEN CallP(p, pc, "unary")
  ELSE [SetPc(p, pc) EXCEPT !.stk = @ \o <<BinFrame(low), Frame("unary")>>]

Ret(p) == [p EXCEPT !.stk = SubSeq(@, 1, Len(@) - 1)]

\* parse_file: while (tok != TOK_EOF) decl
parse_file(p) ==
  IF TokOf(p) = "eof" THEN Ret(p) ELSE CallP(SetAt(p), "file", "decl")

\* decl with no type: the error, and the token is skipped
decl_no_type_keep(p) == Ret(parse_error(p))

decl_no_type(p) == Ret(next(parse_error(p)))

\* the end of a parameter list: prototype or definition
decl_params_end(p) ==
  LET q == skip(p, ")")
  IN IF TokOf(q) = "{" THEN CallP(q, "decl_end", "stmt")
     ELSE Ret(skip(q, ";"))

decl(p) ==
  CASE PTop(p).pc = "decl" ->
         LET r == parse_type(p)
         IN IF ~r.found THEN decl_no_type(r.p) ELSE Goto(r.p, "declarator")
    [] PTop(p).pc = "declarator" ->
         LET q == parse_pointer(SetAt(p))
         IN IF TokOf(q) # "id" THEN Ret(parse_error(q))
            ELSE IF TokOf(next(q)) = "(" THEN Goto(next(next(q)), "params")
            ELSE IF TokOf(next(q)) = "[" THEN
              LET q2 == next(next(q))
              IN SetPc(skip(IF TokOf(q2) = "num" THEN next(q2) ELSE q2, "]"),
                       "decl_more")
            ELSE IF TokOf(next(q)) = "=" THEN
              CallP(next(next(q)), "decl_more", "expr")
            ELSE SetPc(next(q), "decl_more")
    [] PTop(p).pc = "decl_more" ->
         IF TokOf(p) = "," THEN SetPc(next(p), "declarator")
         ELSE Ret(IF TokOf(p) = ";" THEN next(p) ELSE p)
    [] PTop(p).pc = "params" ->
         IF TokOf(p) = ")" THEN decl_params_end(p)
         ELSE LET q == parse_pointer(parse_type(SetAt(p)).p)
                  q1 == IF TokOf(q) = "id" THEN next(q) ELSE q
              IN IF TokOf(q1) = "," THEN next(q1) ELSE decl_params_end(q1)
    [] PTop(p).pc = "decl_end" -> Ret(p)

\* statement, but the block
statement(p) ==
  CASE PTop(p).pc = "stmt" ->
         CASE TokOf(p) = "{" -> Goto(next(p), "block")
           [] TokOf(p) = "if" -> CallP(skip(next(p), "("), "if_cond", "expr")
           [] TokOf(p) = "while" ->
                CallP(skip(next(p), "("), "while_cond", "expr")
           [] TokOf(p) = "for" -> Goto(skip(next(p), "("), "for_init")
           [] TokOf(p) = "do" -> CallP(next(p), "do_body", "stmt")
           [] TokOf(p) = "return" ->
                IF TokOf(next(p)) # ";" THEN CallP(next(p), "semi", "expr")
                ELSE Ret(skip(next(p), ";"))
           [] TokOf(p) \in {"break", "continue"} -> Ret(skip(next(p), ";"))
           [] TokOf(p) = ";" -> Ret(next(p))
           [] OTHER -> CallP(p, "semi", "expr")
    [] PTop(p).pc = "semi" -> Ret(skip(p, ";"))
    [] PTop(p).pc = "if_cond" -> CallP(skip(p, ")"), "if_then", "stmt")
    [] PTop(p).pc = "if_then" ->
         IF TokOf(p) = "else" THEN CallP(next(p), "ret", "stmt") ELSE Ret(p)
    [] PTop(p).pc = "while_cond" -> CallP(skip(p, ")"), "ret", "stmt")
    [] PTop(p).pc = "for_init" ->
         IF TokOf(p) # ";" THEN CallP(p, "for_cond", "expr")
         ELSE Goto(p, "for_cond")
    [] PTop(p).pc = "for_cond" ->
         IF TokOf(skip(p, ";")) # ";"
         THEN CallP(skip(p, ";"), "for_update", "expr")
         ELSE Goto(skip(p, ";"), "for_update")
    [] PTop(p).pc = "for_update" ->
         IF TokOf(skip(p, ";")) # ")"
         THEN CallP(skip(p, ";"), "for_body", "expr")
         ELSE Goto(skip(p, ";"), "for_body")
    [] PTop(p).pc = "for_body" -> CallP(skip(p, ")"), "ret", "stmt")
    [] PTop(p).pc = "do_body" ->
         CallP(skip(skip(p, "while"), "("), "do_cond", "expr")
    [] PTop(p).pc = "do_cond" -> Ret(skip(skip(p, ")"), ";"))
    [] PTop(p).pc = "ret" -> Ret(p)

\* the keywords with which the block takes an item for a declaration
DeclStart ==
  {"int", "char", "void", "short", "long", "float", "double", "static",
   "extern", "const", "unsigned", "signed"}

\* statement on '{': the loop over the items of the block
statement_items(p) ==
  IF TokOf(p) \notin {"}", "eof"}
  THEN CallP(SetAt(p), "block",
             IF TokOf(p) \in DeclStart THEN "decl" ELSE "stmt")
  ELSE Ret(skip(p, "}"))

expr_primary(p) ==
  IF TokOf(p) \in {"num", "str", "id"} THEN next(p)
  ELSE next(parse_error(p))

\* the level, from lvl down to low, whose loop takes the current token
BinLevel(p) ==
  LET f == PTop(p)
      takes == {m \in f.low..f.lvl : TokOf(p) \in BinaryOps[m]}
  IN IF takes = {} THEN 0 ELSE CHOOSE m \in takes : \A n \in takes : n <= m

expression(p) ==
  CASE PTop(p).pc = "expr" -> CallBin(p, "eq_after", 1)
    [] PTop(p).pc = "eq_after" ->
         IF TokOf(p) \in AssignOps THEN CallP(next(p), "eret", "expr")
         ELSE Ret(p)
    [] PTop(p).pc = "bin" ->
         IF BinLevel(p) = 0 THEN Ret(p)
         ELSE CallBin([next(p) EXCEPT !.stk[Len(p.stk)].lvl = BinLevel(p)],
                      "bin", BinLevel(p) + 1)
    [] PTop(p).pc = "unary" ->
         CASE TokOf(p) \in {"-", "+", "!", "~", "*", "&", "++", "--"} ->
                CallP(next(p), "eret", "unary")
           [] TokOf(p) = "sizeof" ->
                IF TokOf(next(p)) # "(" THEN CallP(next(p), "eret", "unary")
                ELSE IF TokOf(next(next(p))) \in KeywordsFrom(1)
                THEN Ret(skip(parse_type(next(next(p))).p, ")"))
                ELSE CallP(next(next(p)), "close", "expr")
           [] TokOf(p) = "(" ->
                IF TokOf(next(p)) \in KeywordsFrom(3)
                THEN CallP(skip(parse_pointer(parse_type(next(p)).p), ")"),
                           "eret", "unary")
                ELSE CallP(next(p), "close", "expr")
           [] OTHER -> Goto(expr_primary(p), "postfix")
    [] PTop(p).pc = "close" -> Ret(skip(p, ")"))
    [] PTop(p).pc = "postfix" ->
         CASE TokOf(p) = "(" -> Goto(next(p), "args")
           [] TokOf(p) = "[" -> CallP(next(p), "index", "expr")
           [] TokOf(p) \in {".", "->"} ->
                next(IF TokOf(next(p)) # "id" THEN parse_error(next(p))
                     ELSE next(p))
           [] TokOf(p) \in {"++", "--"} -> next(p)
           [] OTHER -> Ret(p)
    [] PTop(p).pc = "index" -> Goto(skip(p, "]"), "postfix")
    [] PTop(p).pc = "args" ->
         IF TokOf(p) # ")" THEN CallP(SetAt(p), "args_after", "expr")
         ELSE Goto(skip(p, ")"), "postfix")
    [] PTop(p).pc = "args_after" ->
         IF TokOf(p) = "," THEN SetPc(next(p), "args")
         ELSE Goto(skip(p, ")"), "postfix")
    [] PTop(p).pc = "eret" -> Ret(p)

DeclPcs == {"decl", "declarator", "decl_more", "params", "decl_end"}

ExprPcs ==
  {"expr", "eq_after", "bin", "unary", "close", "postfix", "index", "args",
   "args_after", "eret"}

\* the parser state the variables hold
P == [toks |-> drv.toks, pos |-> drv.pos, err |-> nb_errors, stk |-> ctl]

ParseCommit(p) ==
  /\ drv' = [toks |-> p.toks, pos |-> p.pos]
  /\ nb_errors' = p.err
  /\ ctl' = p.stk
  /\ mark' = PTop(P).pc
  /\ UNCHANGED <<vstack, text, ind, loc, nb_warnings, labels, ast, sites,
                 callsites, funcs, stacks, sec, pe>>

ParserFile ==
  /\ ctl # <<>>
  /\ CtlTop.pc = "file"
  /\ \E p \in {P} : \E q \in {parse_file(p)} : ParseCommit(q)

ParserDecl ==
  /\ ctl # <<>>
  /\ CtlTop.pc \in DeclPcs
  /\ \E p \in {P} : \E q \in {decl(p)} : ParseCommit(q)

ParserBlock ==
  /\ ctl # <<>>
  /\ CtlTop.pc = "block"
  /\ \E p \in {P} : \E q \in {statement_items(p)} : ParseCommit(q)

ParserExpr ==
  /\ ctl # <<>>
  /\ CtlTop.pc \in ExprPcs
  /\ \E p \in {P} : \E q \in {expression(p)} : ParseCommit(q)

ParserStatement ==
  /\ ctl # <<>>
  /\ CtlTop.pc \notin DeclPcs \cup ExprPcs \cup {"file", "block"}
  /\ \E p \in {P} : \E q \in {statement(p)} : ParseCommit(q)

\* the tokens the inputs are made of
ParseAlphabet ==
  {"int", "id", "(", ")", "{", "}", ",", ";", "=", "+", "if"}

\* the inputs start at the top level, in a parameter list, in the block of
\* a function body, or in the argument list of a call
ParsePrefixes ==
  {<<>>, <<"int", "id", "(">>, <<"int", "id", "(", ")", "{">>,
   <<"int", "id", "(", ")", "{", "id", "(">>}

ParseInputs ==
  {pre \o suf : pre \in ParsePrefixes,
                suf \in UNION {[1..n -> ParseAlphabet] : n \in 0..MaxToks}}

\* tcc_compile: the first token is read, then parse_file runs
ParseInit ==
  /\ GenInit(tcc_new, <<Frame("file")>>)
  /\ \E toks \in ParseInputs : drv = [toks |-> toks, pos |-> 1]
  /\ stacks = <<>>
  /\ sec = <<>>
  /\ pe = <<>>

ParseNext ==
  \/ ParserFile
  \/ ParserDecl
  \/ ParserBlock
  \/ ParserStatement
  \/ ParserExpr

SpecParse == ParseInit /\ [][ParseNext]_vars

\* the parser runs on its own: a step that can be taken is taken
SpecParseLive == SpecParse /\ WF_vars(ParseNext)

LoopPcs == {"file", "block", "declarator", "params", "args"}

\* control is at the head of a loop whose previous iteration started at at:
\* the position has moved on since
LoopProgress ==
  (ctl # <<>> /\ CtlTop.pc \in LoopPcs /\ CtlTop.at >= 0)
    => drv.pos > CtlTop.at

\* the token that starts no expression and no declaration is reported
\* and left behind
Unexpected ==
  /\ ctl # <<>>
  /\ TokOf(P) # "eof"
  /\ \/ CtlTop.pc = "decl" /\ ~parse_type(P).found
     \/ /\ CtlTop.pc = "unary"
        /\ TokOf(P) \in {")", "{", "}", ",", ";", "=", "if", "int"}

UnexpectedSkipped ==
  Unexpected => nb_errors' = nb_errors + 1 /\ drv'.pos = drv.pos + 1

EofSticks == TokOf(P) = "eof" => TokOf(P)' = "eof"

ChunkSize == 2

MaxBytes == 4

LexAlphabet == {"a", " ", "\n", "/", "*", "=", "."}

OpenFile(src) == [src |-> src, off |-> 0, buf |-> <<>>, ptr |-> 0]

fread(r, n) ==
  SubSeq(r.src, r.off + 1, IF r.off + n < Len(r.src) THEN r.off + n
                           ELSE Len(r.src))

\* the buffer is read again from the file when buf_ptr is at buf_end
Refill(r, n) ==
  IF r.ptr >= Len(r.buf) /\ fread(r, n) # <<>>
  THEN [r EXCEPT !.buf = fread(r, n), !.off = @ + Len(fread(r, n)), !.ptr = 0]
  ELSE r

tcc_inp(r, n) ==
  LET q == Refill(r, n)
  IN IF q.ptr >= Len(q.buf) THEN [r |-> q, c |-> "EOF"]
     ELSE [r |-> [q EXCEPT !.ptr = @ + 1], c |-> q.buf[q.ptr + 1]]

peek_char(r, n) ==
  LET q == Refill(r, n)
  IN IF q.ptr >= Len(q.buf) THEN [r |-> q, c |-> "EOF"]
     ELSE [r |-> q, c |-> q.buf[q.ptr + 1]]

unget_char(r) == IF r.ptr > 0 THEN [r EXCEPT !.ptr = @ - 1] ELSE r

\* the rest of a line comment
RECURSIVE skip_line(_, _)
skip_line(r, n) ==
  LET i == tcc_inp(r, n)
  IN IF i.c \in {"\n", "EOF"} THEN i.r ELSE skip_line(i.r, n)

\* the rest of a block comment
RECURSIVE skip_block(_, _)
skip_block(r, n) ==
  LET i == tcc_inp(r, n)
  IN IF i.c = "EOF" THEN i.r
     ELSE IF i.c = "*"
     THEN IF peek_char(i.r, n).c = "/"
          THEN tcc_inp(peek_char(i.r, n).r, n).r
          ELSE skip_block(peek_char(i.r, n).r, n)
     ELSE skip_block(i.r, n)

RECURSIVE skip_whitespace(_, _)
skip_whitespace(r, n) ==
  LET i == tcc_inp(r, n)
      nc == peek_char(i.r, n)
  IN IF i.c \in {" ", "\t", "\r", "\n"} THEN skip_whitespace(i.r, n)
     ELSE IF i.c = "/" /\ nc.c = "/"
     THEN skip_whitespace(skip_line(tcc_inp(nc.r, n).r, n), n)
     ELSE IF i.c = "/" /\ nc.c = "*"
     THEN skip_whitespace(skip_block(tcc_inp(nc.r, n).r, n), n)
     ELSE IF i.c = "/" THEN unget_char(nc.r)
     ELSE IF i.c # "EOF" THEN unget_char(i.r)
     ELSE i.r

is_ident_char(c) == c = "a"

Token(k, str) == [k |-> k, str |-> str]

\* the characters of an identifier after the ones in str
RECURSIVE lex_ident(_, _, _)
lex_ident(r, n, str) ==
  LET i == tcc_inp(r, n)
  IN IF is_ident_char(i.c) THEN lex_ident(i.r, n, Append(str, i.c))
     ELSE [r |-> IF i.c # "EOF" THEN unget_char(i.r) ELSE i.r,
           tok |-> Token("ident", str)]

\* c, or c followed by '='
lex_assign(r, n, c, both) ==
  LET nc == peek_char(r, n)
  IN IF nc.c = "=" THEN [r |-> tcc_inp(nc.r, n).r, tok |-> Token(both, <<>>)]
     ELSE [r |-> nc.r, tok |-> Token(c, <<>>)]

\* '.', and '...'
lex_dot(r, n) ==
  LET nc == peek_char(r, n)
      i == tcc_inp(nc.r, n)
      nc2 == peek_char(i.r, n)
  IN IF nc.c # "." THEN [r |-> nc.r, tok |-> Token(".", <<>>)]
     ELSE IF nc2.c = "."
     THEN [r |-> tcc_inp(nc2.r, n).r, tok |-> Token("...", <<>>)]
     ELSE [r |-> unget_char(nc2.r), tok |-> Token(".", <<>>)]

next_nomacro(r, n) ==
  LET i == tcc_inp(skip_whitespace(r, n), n)
  IN CASE i.c = "EOF" -> [r |-> i.r, tok |-> Token("eof", <<>>)]
       [] is_ident_char(i.c) -> lex_ident(i.r, n, <<i.c>>)
       [] i.c = "*" -> lex_assign(i.r, n, "*", "*=")
       [] i.c = "/" -> lex_assign(i.r, n, "/", "/=")
       [] i.c = "=" -> lex_assign(i.r, n, "=", "==")
       [] i.c = "." -> lex_dot(i.r, n)
       [] OTHER -> [r |-> i.r, tok |-> Token(i.c, <<>>)]

LexInputs == UNION {[1..n -> LexAlphabet] : n \in 0..MaxBytes}

\* the source opened, and beside it the reader whose buffer holds the
\* whole file
LexInit ==
  /\ GenInit(tcc_new, <<>>)
  /\ \E src \in LexInputs :
       drv = [file |-> OpenFile(src), toks |-> <<>>,
              whole |-> OpenFile(src), expected |-> <<>>]
  /\ stacks = <<>>
  /\ sec = <<>>
  /\ pe = <<>>

LexDone ==
  /\ drv.toks # <<>>
  /\ drv.toks[Len(drv.toks)].k = "eof"
  /\ drv.expected[Len(drv.expected)].k = "eof"

\* next(), on both readers, until both have delivered TOK_EOF
LexToken ==
  /\ ~LexDone
  /\ \E t \in {next_nomacro(drv.file, ChunkSize)} :
     \E w \in {next_nomacro(drv.whole, Len(drv.whole.src) + 1)} :
       drv' = [file |-> t.r, toks |-> Append(drv.toks, t.tok),
               whole |-> w.r, expected |-> Append(drv.expected, w.tok)]
  /\ mark' = "next"
  /\ UNCHANGED <<vstack, text, ind, loc, nb_errors, nb_warnings, labels, ast,
                 ctl, sites, callsites, funcs, stacks, sec, pe>>

LexNext == LexToken

SpecLex == LexInit /\ [][LexNext]_vars

\* C30: the tokens next() delivers are the ones of a lexer that reads the
\* same bytes without buffering, wherever the refills of the buffer fall:
\* no character is lost or read twice at the end of a chunk.
C30_BufferingUnseen == drv.toks = drv.expected

====
